---------------------------- MODULE Spec2Model ----------------------------
(***************************************************************************)
(* Slot reservation of the venue-booking storefront: the booking page      *)
(* (both versions of pages/Booking kept in the sources), its slot          *)
(* resolution (fetchSlotDetails) and its commit protocol (handleSubmit),   *)
(* run by several independent pages against one shared record store.       *)
(*                                                                         *)
(* Text is modelled as a sequence of one-character strings, so that        *)
(* split, join, startsWith, trim, length and the date/time parsers are     *)
(* computed as the code computes them.                                     *)
(***************************************************************************)
EXTENDS Integers, Sequences, FiniteSets, TLC

(***************************************************************************)
(* Bounds of the model.                                                    *)
(***************************************************************************)
\* Number of booking pages (independent user sessions) open at once.
NumPages == 2

Pages == 1..NumPages

(***************************************************************************)
(* Text.                                                                   *)
(***************************************************************************)
Null == "null"

EmptyText == << >>

Dash == "-"

\* String.prototype.startsWith
StartsWith(s, pre) ==
    /\ Len(s) >= Len(pre)
    /\ SubSeq(s, 1, Len(pre)) = pre

RECURSIVE SplitAcc(_, _, _, _)
SplitAcc(s, sep, cur, acc) ==
    IF s = << >> THEN Append(acc, cur)
    ELSE IF Head(s) = sep
         THEN SplitAcc(Tail(s), sep, << >>, Append(acc, cur))
         ELSE SplitAcc(Tail(s), sep, Append(cur, Head(s)), acc)

\* String.prototype.split(sep) with a one-character separator: "a-" gives
\* ["a", ""], "" gives [""].
Split(s, sep) == SplitAcc(s, sep, << >>, << >>)

RECURSIVE Join(_, _)
\* Array.prototype.join(sep); the empty array joins to the empty text.
Join(parts, sep) ==
    IF parts = << >> THEN << >>
    ELSE IF Len(parts) = 1 THEN parts[1]
         ELSE parts[1] \o <<sep>> \o Join(Tail(parts), sep)

RECURSIVE TrimLeft(_)
TrimLeft(s) ==
    IF s # << >> /\ Head(s) = " " THEN TrimLeft(Tail(s)) ELSE s

RECURSIVE TrimRight(_)
TrimRight(s) ==
    IF s # << >> /\ s[Len(s)] = " " THEN TrimRight(SubSeq(s, 1, Len(s) - 1)) ELSE s

\* String.prototype.trim
Trim(s) == TrimRight(TrimLeft(s))

Digits == {"0", "1", "2", "3", "4", "5", "6", "7", "8", "9"}

DigitVal(c) ==
    CASE c = "0" -> 0 [] c = "1" -> 1 [] c = "2" -> 2 [] c = "3" -> 3
      [] c = "4" -> 4 [] c = "5" -> 5 [] c = "6" -> 6 [] c = "7" -> 7
      [] c = "8" -> 8 [] c = "9" -> 9

AllDigits(s) == \A i \in 1..Len(s) : s[i] \in Digits

RECURSIVE NumVal(_)
\* The number a text of digits denotes.
NumVal(s) ==
    IF s = << >> THEN 0
    ELSE 10 * NumVal(SubSeq(s, 1, Len(s) - 1)) + DigitVal(s[Len(s)])

(***************************************************************************)
(* Virtual slot references: temp-<venue>-<sport>-<date>-<time>.            *)
(***************************************************************************)
TempPrefix == <<"t", "e", "m", "p", "-">>

\* The encoder lives in the slot-browsing page (pages/Slots), which builds
\* the link the booking page receives in slotId.
EncodeTempId(venueId, sportId, date, time) ==
    TempPrefix \o venueId \o <<Dash>> \o sportId \o <<Dash>> \o date
               \o <<Dash>> \o time

RECURSIVE DecodeLoop(_, _, _, _)
\* The for loop of the decoder; i is the 0-based index of the code, so
\* tempParts[i] of the code is tempParts[i + 1] here.
DecodeLoop(tempParts, i, venueIdParts, sportIdParts) ==
    IF ~(i < Len(tempParts) - 2)
    THEN [venueIdParts |-> venueIdParts, sportIdParts |-> sportIdParts]
    ELSE IF Len(venueIdParts) < 5
         THEN DecodeLoop(tempParts, i + 1,
                         Append(venueIdParts, tempParts[i + 1]), sportIdParts)
         ELSE IF Len(sportIdParts) < 5
              THEN DecodeLoop(tempParts, i + 1, venueIdParts,
                              Append(sportIdParts, tempParts[i + 1]))
              ELSE DecodeLoop(tempParts, i + 1, venueIdParts, sportIdParts)

\* The decoder of fetchSlotDetails: either the thrown error or the four
\* extracted texts.
DecodeTempId(slotId) ==
    LET tempParts == Split(slotId, Dash) IN
    IF Len(tempParts) < 6
    THEN [ok |-> FALSE, error |-> "Invalid temporary slot ID format"]
    ELSE LET parts   == DecodeLoop(tempParts, 1, << >>, << >>)
             venueId == Join(parts.venueIdParts, Dash)
             sportId == Join(parts.sportIdParts, Dash)
             date    == tempParts[Len(tempParts) - 1]
             time    == tempParts[Len(tempParts)]
         IN IF venueId = EmptyText \/ sportId = EmptyText
               \/ date = EmptyText \/ time = EmptyText
            THEN [ok |-> FALSE, error |-> "Failed to extract slot details from ID"]
            ELSE [ok |-> TRUE, venueId |-> venueId, sportId |-> sportId,
                  date |-> date, time |-> time]


(***************************************************************************)
(* Dates, times and instants.                                              *)
(***************************************************************************)
\* Days from 1970-01-01 to the civil date y-m-d (proleptic Gregorian).
DaysFromCivil(y, m, d) ==
    LET yy  == IF m <= 2 THEN y - 1 ELSE y
        era == yy \div 400
        yoe == yy - era * 400
        mp  == (m + 9) % 12
        doy == (153 * mp + 2) \div 5 + d - 1
        doe == yoe * 365 + yoe \div 4 - yoe \div 100 + doy
    IN era * 146097 + doe - 719468

\* Date.prototype.getDay of a day number: 0 is Sunday.
WeekdayOf(days) == (days + 4) % 7

\* The shape yyyy-MM-dd with a month and a day in range.
IsIsoDate(s) ==
    /\ Len(s) = 10
    /\ s[5] = Dash /\ s[8] = Dash
    /\ AllDigits(SubSeq(s, 1, 4)) /\ AllDigits(SubSeq(s, 6, 7))
    /\ AllDigits(SubSeq(s, 9, 10))
    /\ NumVal(SubSeq(s, 6, 7)) \in 1..12
    /\ NumVal(SubSeq(s, 9, 10)) \in 1..31

\* The shape yyyyMMdd (ISO 8601 basic) with a month and a day in range.
IsBasicDate(s) ==
    /\ Len(s) = 8
    /\ AllDigits(s)
    /\ NumVal(SubSeq(s, 5, 6)) \in 1..12
    /\ NumVal(SubSeq(s, 7, 8)) \in 1..31

\* The shape HH:mm:ss with every field in range.
IsClockTime(s) ==
    /\ Len(s) = 8
    /\ s[3] = ":" /\ s[6] = ":"
    /\ AllDigits(SubSeq(s, 1, 2)) /\ AllDigits(SubSeq(s, 4, 5))
    /\ AllDigits(SubSeq(s, 7, 8))
    /\ NumVal(SubSeq(s, 1, 2)) < 24
    /\ NumVal(SubSeq(s, 4, 5)) < 60
    /\ NumVal(SubSeq(s, 7, 8)) < 60

IsoDateDays(s) ==
    DaysFromCivil(NumVal(SubSeq(s, 1, 4)), NumVal(SubSeq(s, 6, 7)),
                  NumVal(SubSeq(s, 9, 10)))

BasicDateDays(s) ==
    DaysFromCivil(NumVal(SubSeq(s, 1, 4)), NumVal(SubSeq(s, 5, 6)),
                  NumVal(SubSeq(s, 7, 8)))

ClockSeconds(s) ==
    NumVal(SubSeq(s, 1, 2)) * 3600 + NumVal(SubSeq(s, 4, 5)) * 60
        + NumVal(SubSeq(s, 7, 8))

\* A slot_time value: an instant in seconds since the epoch, the current
\* time of a page (the fallback of the first handleSubmit), or a literal
\* that denotes no timestamp.
AtInstant(secs) == [kind |-> "instant", at |-> secs]

NowOf(p) == [kind |-> "now", at |-> p]

NoTimestamp == [kind |-> "malformed", at |-> 0]

\* new Date(`${date}T${time}`): the ECMAScript date-time format without an
\* offset is local time; any other text is an Invalid Date.  tz is the
\* browser's offset from UTC in minutes.
JsDateTime(date, time, tz) ==
    IF IsIsoDate(date) /\ IsClockTime(time)
    THEN AtInstant(IsoDateDays(date) * 86400 + ClockSeconds(time) - tz * 60)
    ELSE NoTimestamp

\* How the record store reads a zone-less timestamp literal "<date>T<time>"
\* or "<date> <time>" sent for the slot_time column: in its own zone, UTC;
\* it takes the extended and the basic ISO date.
StoreTimestamp(date, time) ==
    IF IsClockTime(time) /\ IsIsoDate(date)
    THEN AtInstant(IsoDateDays(date) * 86400 + ClockSeconds(time))
    ELSE IF IsClockTime(time) /\ IsBasicDate(date)
         THEN AtInstant(BasicDateDays(date) * 86400 + ClockSeconds(time))
         ELSE NoTimestamp

(***************************************************************************)
(* Reference data of the record store (read-only to the booking page).     *)
(***************************************************************************)
VenueA == <<"a", "1", "-", "a", "2", "-", "a", "3", "-", "a", "4", "-", "a", "5">>

\* A well-formed venue id with no row in venues.
VenueX == <<"x", "1", "-", "x", "2", "-", "x", "3", "-", "x", "4", "-", "x", "5">>

SportA == <<"b", "1", "-", "b", "2", "-", "b", "3", "-", "b", "4", "-", "b", "5">>

\* A well-formed sport id with no row in sports.
SportX == <<"y", "1", "-", "y", "2", "-", "y", "3", "-", "y", "4", "-", "y", "5">>

\* A second venue and a second sport, with no tariff rule and no slot row.
VenueB == <<"c", "1", "-", "c", "2", "-", "c", "3", "-", "c", "4", "-", "c", "5">>

SportB == <<"d", "1", "-", "d", "2", "-", "d", "3", "-", "d", "4", "-", "d", "5">>

VenueRows == {VenueA, VenueB}

SportRows == {SportA, SportB}

\* 2024-01-15, a Monday, and 2024-01-20, a Saturday.
DateMon == <<"2", "0", "2", "4", "-", "0", "1", "-", "1", "5">>

DateSat == <<"2", "0", "2", "4", "-", "0", "1", "-", "2", "0">>

\* 2024-01-15 written without delimiters.
DateMonBasic == <<"2", "0", "2", "4", "0", "1", "1", "5">>

TimeMorning == <<"0", "9", ":", "0", "0", ":", "0", "0">>

TimeEvening == <<"1", "8", ":", "3", "0", ":", "0", "0">>

TimeMorningEnd == <<"0", "9", ":", "3", "0", ":", "0", "0">>

SlotIdA == <<"s", "l", "o", "t", "A">>

\* A persisted reference with no row in slots.
SlotIdX == <<"s", "l", "o", "t", "X">>

\* The rows of slots, created by the venue-management tooling.
SlotRows == {SlotIdA}

SlotRow(id) ==
    [id |-> id, venue_id |-> VenueA, sport_id |-> SportA, date |-> DateMon,
     start_time |-> TimeMorning, end_time |-> TimeMorningEnd, price |-> 700]

\* The rows of venue_pricing of VenueA the venue-management tooling has
\* entered, in the order the store returns them.
TariffOfVenueA ==
    << [day_group |-> "friday-sunday", is_morning |-> TRUE, price |-> 800],
       [day_group |-> "monday-sunday", is_morning |-> FALSE, price |-> 600] >>

\* Browser offsets from UTC, in minutes: UTC, and India (the prices are in
\* rupees).
TzOffsets == {0, 330}

\* The price a virtual slot falls back to.
DefaultPrice == 500

\* The fixed session length, in minutes.
SessionMinutes == 30

\* The least length of an accepted phone number.
MinPhoneLength == 10

(***************************************************************************)
(* Pure parts of fetchSlotDetails.                                         *)
(***************************************************************************)
DigitChars == <<"0", "1", "2", "3", "4", "5", "6", "7", "8", "9">>

\* String(n).padStart(2, '0') of a number below 100.
TwoDigits(n) == <<DigitChars[((n \div 10) % 10) + 1], DigitChars[(n % 10) + 1]>>

\* format(d, 'HH:mm:ss') of a time of day in seconds.
FormatClock(secs) ==
    TwoDigits(secs \div 3600) \o <<":">> \o TwoDigits((secs \div 60) % 60)
        \o <<":">> \o TwoDigits(secs % 60)

\* EndTimeOf by the arithmetic of the catch: the hour is not wrapped and
\* the seconds are dropped.
EndTimeOfByFields(time) ==
    LET hours   == NumVal(SubSeq(time, 1, 2))
        minutes == NumVal(SubSeq(time, 4, 5))
    IN TwoDigits(hours + (minutes + SessionMinutes) \div 60) \o <<":">>
          \o TwoDigits((minutes + SessionMinutes) % 60) \o <<":", "0", "0">>

\* The end time of a virtual slot: parse(time, 'HH:mm:ss'), plus the
\* session length, formatted back (the Date wraps past midnight).  A time
\* that does not parse makes format throw, and the catch computes from the
\* two leading fields, which are not numbers then.
EndTimeOf(time) ==
    IF IsClockTime(time)
    THEN FormatClock((ClockSeconds(time) + SessionMinutes * 60) % 86400)
    ELSE <<"N", "a", "N", ":", "N", "a", "N", ":", "0", "0">>

DayNames == <<"sunday", "monday", "tuesday", "wednesday", "thursday",
              "friday", "saturday">>

\* String.prototype.toLowerCase on the day groups the rows may carry.
ToLowerCase(s) ==
    CASE s = "Sunday" -> "sunday" [] s = "Monday" -> "monday"
      [] s = "Tuesday" -> "tuesday" [] s = "Wednesday" -> "wednesday"
      [] s = "Thursday" -> "thursday" [] s = "Friday" -> "friday"
      [] s = "Saturday" -> "saturday" [] OTHER -> s

\* DayOfWeek reading the undelimited date as well, and any other text as the
\* first day of the week.
DayOfWeekOfAnyText(date, tz) ==
    IF IsIsoDate(date)
    THEN DayNames[WeekdayOf((IsoDateDays(date) * 1440 + tz) \div 1440) + 1]
    ELSE IF IsBasicDate(date)
         THEN DayNames[WeekdayOf((BasicDateDays(date) * 1440 + tz) \div 1440) + 1]
         ELSE DayNames[1]

\* format(new Date(date), 'EEEE').toLowerCase(): a date-only ISO text is UTC
\* midnight, shown in local time; any other text gives no day of week.
DayOfWeek(date, tz) ==
    IF IsIsoDate(date)
    THEN DayNames[WeekdayOf((IsoDateDays(date) * 1440 + tz) \div 1440) + 1]
    ELSE Null

\* parseInt(time.split(':')[0], 10) < 12; NaN is not below 12.
IsMorning(time) ==
    LET h == Split(time, ":")[1] IN
    h # << >> /\ AllDigits(h) /\ NumVal(h) < 12

\* The absent value of a row-valued variable (null, undefined).
NoRow == [none |-> TRUE]

\* Array.prototype.find: the first element satisfying Test, or NoRow.
FindFirst(rows, Test(_)) ==
    IF \E i \in 1..Len(rows) : Test(rows[i])
    THEN rows[CHOOSE i \in 1..Len(rows) :
                 /\ Test(rows[i])
                 /\ \A j \in 1..(i - 1) : ~Test(rows[j])]
    ELSE NoRow

\* The price of a virtual slot from the rows of venue_pricing.
ResolvePrice(pricingData, date, time, tz) ==
    LET dayOfWeek == DayOfWeek(date, tz) IN
    IF Len(pricingData) = 0 \/ dayOfWeek = Null THEN DefaultPrice
    ELSE
      LET isMorning == IsMorning(time)
          filteredPricing == SelectSeq(pricingData, LAMBDA r : r.is_morning = isMorning)
          daySpecific == FindFirst(filteredPricing,
                                   LAMBDA r : ToLowerCase(r.day_group) = dayOfWeek)
          isWeekend == dayOfWeek \in {"friday", "saturday", "sunday"}
          group == IF isWeekend
                   THEN FindFirst(filteredPricing, LAMBDA r : r.day_group = "friday-sunday")
                   ELSE FindFirst(filteredPricing, LAMBDA r : r.day_group = "monday-thursday")
          price1 == IF group # NoRow THEN group.price ELSE DefaultPrice
          general == FindFirst(filteredPricing, LAMBDA r : r.day_group = "monday-sunday")
      IN IF daySpecific # NoRow THEN daySpecific.price
         ELSE IF price1 = DefaultPrice /\ general # NoRow THEN general.price
              ELSE price1

(***************************************************************************)
(* State.                                                                  *)
(***************************************************************************)
VARIABLES
    bookings,      \* the rows of bookings (the record store)
    available,     \* slots.available of each row of slots (the record store)
    tz,            \* the browsers' offset from UTC, in minutes
    rules,         \* the rows of venue_pricing of VenueA (the record store)
    quote,         \* the price resolution applied to a date and a start time
    version,       \* which of the two Booking pages a page runs
    slotId,        \* searchParams.get('slotId')
    user,          \* useAuth().user
    slot,          \* useState: slot
    venue,         \* useState: venue
    sport,         \* useState: sport
    name,          \* useState: name
    phone,         \* useState: phone
    isSubmitting,  \* useState: isSubmitting
    isLoading,     \* useState: isLoading
    error,         \* useState: error
    isSlotBooked,  \* useState: isSlotBooked (first version only)
    route,         \* where the router is: "/booking" until a navigate()
    timer,         \* the redirect scheduled by the catch of fetchSlotDetails
    subscribed,    \* the realtime channel of the page is subscribed
    fpc,           \* where fetchSlotDetails is suspended
    floc,          \* the locals of the suspended fetchSlotDetails
    spc,           \* where handleSubmit is suspended
    sub,           \* the closure and locals of the suspended handleSubmit
    outcome,       \* how the last handleSubmit ended (its toast and navigation)
    trail,         \* the storage operations the last handleSubmit issued
    raced,         \* the last handleSubmit to reach the store ran while
                   \* another page's was running
    published,     \* the bookings whose INSERT the realtime feed has sent out
    inbox,         \* the INSERT events on their way to the channel of a page
    stale,         \* the fetchSlotDetails of the slotId a page had before,
                   \* still waiting for the store
    auth           \* the state of the AuthProvider and of the auth client

storeVars == <<bookings, available>>

envVars == <<tz, version, slotId, user, rules, quote, published, inbox, stale,
             auth>>

formVars == <<name, phone>>

viewVars == <<slot, venue, sport, isLoading, error, isSlotBooked, route, timer,
              subscribed>>

fetchVars == <<fpc, floc>>

submitVars == <<isSubmitting, spc, sub, outcome, trail, raced>>

vars == <<storeVars, envVars, formVars, viewVars, fetchVars, submitVars>>

\* searchParams.get('slotId') of a URL without the parameter.
NullText == <<Null>>

UserOf(p) == <<"u", ToString(p)>>

NoLocals ==
    [venueId |-> EmptyText, sportId |-> EmptyText, date |-> EmptyText,
     time |-> EmptyText, isSlotBooked |-> FALSE, tempSlot |-> NoRow]

\* An AuthProvider that has finished loading without a session.  The
\* booking pages take what useAuth() gives them from user.
AuthAtRest ==
    [session |-> Null, user |-> Null, profile |-> NoRow, isLoading |-> FALSE,
     events |-> << >>, timers |-> {}, calls |-> {}, init |-> "done",
     path |-> "none", emitted |-> 0]

\* The first render of the pages: the initial values of the useState hooks;
\* choices is the set of assignments of a visit to every page.
PageInit(choices) ==
    /\ auth = AuthAtRest
    /\ stale = [p \in Pages |-> NoRow]
    /\ \E v \in choices :
          /\ version = [p \in Pages |-> v[p].version]
          /\ slotId = [p \in Pages |-> v[p].slotId]
          /\ user = [p \in Pages |-> IF v[p].user THEN UserOf(p) ELSE NullText]
    /\ slot = [p \in Pages |-> NoRow]
    /\ venue = [p \in Pages |-> NoRow]
    /\ sport = [p \in Pages |-> NoRow]
    /\ name = [p \in Pages |-> EmptyText]
    /\ phone = [p \in Pages |-> EmptyText]
    /\ isSubmitting = [p \in Pages |-> FALSE]
    /\ isLoading = [p \in Pages |-> TRUE]
    /\ error = [p \in Pages |-> Null]
    /\ isSlotBooked = [p \in Pages |-> FALSE]
    /\ route = [p \in Pages |-> "/booking"]
    /\ timer = [p \in Pages |-> FALSE]
    /\ subscribed = [p \in Pages |-> FALSE]
    /\ fpc = [p \in Pages |-> "effect"]
    /\ floc = [p \in Pages |-> NoLocals]
    /\ spc = [p \in Pages |-> "idle"]
    /\ sub = [p \in Pages |-> NoRow]
    /\ outcome = [p \in Pages |-> "None"]
    /\ trail = [p \in Pages |-> << >>]
    /\ raced = [p \in Pages |-> FALSE]
    /\ published = {}
    /\ inbox = [p \in Pages |-> {}]

\* A fresh record store: no booking, every slot row available.
StoreInit ==
    /\ bookings = {}
    /\ available = [id \in SlotRows |-> TRUE]

\* No price resolution is being looked at on its own.
NoQuote == [date |-> EmptyText, time |-> EmptyText, done |-> FALSE, price |-> 0]

\* The tariff of the venue as entered.
TariffInit ==
    /\ rules = TariffOfVenueA
    /\ quote = NoQuote

\* A virtual reference whose date is written without delimiters: the one
\* shape of date the decoder reads back whole, so the one that takes a page
\* of the first version through the virtual path to the form.
TempIdBasic == EncodeTempId(VenueA, SportA, DateMonBasic, TimeMorning)

\* What the pages of the commit protocol are opened on.
Visits ==
    { [version |-> 1, slotId |-> TempIdBasic, user |-> TRUE],
      [version |-> 1, slotId |-> SlotIdA, user |-> TRUE],
      [version |-> 2, slotId |-> SlotIdA, user |-> TRUE] }

Init ==
    /\ StoreInit
    /\ TariffInit
    /\ tz \in TzOffsets
    /\ PageInit([Pages -> Visits])

(***************************************************************************)
(* The record store, as the booking page uses it.                          *)
(***************************************************************************)
\* The outcomes of one round trip: an answer, or a storage/network failure.
IoResults == {"ok", "fail"}

\* from('venue_pricing').select('*').eq('venue_id', venueId)
PricingRows(venueId) == IF venueId = VenueA THEN rules ELSE << >>

\* from('bookings').select().eq('venue_id').eq('sport_id').eq('slot_time')
BookingsAt(venueId, sportId, slotTime) ==
    {b \in bookings : /\ b.venue_id = venueId
                      /\ b.sport_id = sportId
                      /\ b.slot_time = slotTime}

(***************************************************************************)
(* fetchSlotDetails.                                                       *)
(***************************************************************************)
IsTemp(id) == StartsWith(id, TempPrefix)

\* finally of fetchSlotDetails: loading ends; the locals are gone.
FetchEnds(p) ==
    /\ isLoading' = [isLoading EXCEPT ![p] = FALSE]
    /\ fpc' = [fpc EXCEPT ![p] = "done"]
    /\ floc' = [floc EXCEPT ![p] = NoLocals]

\* catch and finally of fetchSlotDetails: the error is shown and a redirect
\* to /slots is scheduled.
FetchCatch(p, message) ==
    /\ error' = [error EXCEPT ![p] =
                    IF message = "" THEN "Failed to load booking details" ELSE message]
    /\ timer' = [timer EXCEPT ![p] = TRUE]
    /\ FetchEnds(p)

\* The await continues: fetchSlotDetails is suspended at the next call.
FetchAwaits(p, at) ==
    /\ fpc' = [fpc EXCEPT ![p] = at]
    /\ UNCHANGED <<isLoading, error, timer>>

\* The try of fetchSlotDetails begins (setIsLoading(true), setError(null))
\* and is suspended at its first call.
FetchStarts(p, at) ==
    /\ fpc' = [fpc EXCEPT ![p] = at]
    /\ isLoading' = [isLoading EXCEPT ![p] = TRUE]
    /\ error' = [error EXCEPT ![p] = Null]
    /\ UNCHANGED timer

\* The effect of the page, run for the reference id, up to the first await
\* of fetchSlotDetails.
RunEffectOn(p, id) ==
    /\ UNCHANGED <<storeVars, formVars, submitVars>>
    /\ UNCHANGED <<slot, venue, sport, isSlotBooked, subscribed>>
    /\ IF user[p] = NullText
       THEN /\ route' = [route EXCEPT ![p] = "/auth"]
            /\ fpc' = [fpc EXCEPT ![p] = "done"]
            /\ UNCHANGED <<isLoading, error, timer, floc>>
       ELSE IF id = NullText
       THEN /\ route' = [route EXCEPT ![p] = "/venue"]
            /\ fpc' = [fpc EXCEPT ![p] = "done"]
            /\ UNCHANGED <<isLoading, error, timer, floc>>
       ELSE IF version[p] = 1 /\ IsTemp(id)
       THEN LET d == DecodeTempId(id) IN
            IF ~d.ok
            THEN /\ FetchCatch(p, d.error)
                 /\ UNCHANGED route
            ELSE /\ floc' = [floc EXCEPT ![p] =
                               [venueId |-> d.venueId, sportId |-> d.sportId,
                                date |-> d.date, time |-> d.time,
                                isSlotBooked |-> isSlotBooked[p],
                                tempSlot |-> NoRow]]
                 /\ FetchStarts(p, "venue")
                 /\ UNCHANGED route
       ELSE /\ floc' = [floc EXCEPT ![p] =
                           [NoLocals EXCEPT !.isSlotBooked = isSlotBooked[p]]]
            /\ FetchStarts(p, "slotrow")
            /\ UNCHANGED route

\* The effect of the first render.
RunEffect(p) ==
    /\ fpc[p] = "effect"
    /\ UNCHANGED envVars
    /\ RunEffectOn(p, slotId[p])

\* The reference a page that is open may be sent on to: the evening slot of
\* the same venue, sport and day, which no page is opened on.
Revisits == {EncodeTempId(VenueA, SportA, DateMonBasic, TimeEvening)}

\* The router changes the slotId of the URL of a page that is mounted and
\* at rest: the same component instance renders again with its state kept,
\* and the effect runs for the new reference.
ChangeSlot(p) ==
    /\ route[p] = "/booking"
    /\ user[p] # NullText
    /\ fpc[p] = "done"
    /\ spc[p] = "idle"
    /\ \E id \in Revisits \ {slotId[p]} :
          /\ slotId' = [slotId EXCEPT ![p] = id]
          /\ RunEffectOn(p, id)
    /\ UNCHANGED <<tz, version, user, rules, quote, published, inbox, stale, auth>>

\* Virtual path: the answer of from('venues').select().eq('id').single().
FetchVenue(p) ==
    /\ fpc[p] = "venue"
    /\ UNCHANGED <<storeVars, envVars, formVars, submitVars>>
    /\ UNCHANGED <<slot, venue, sport, isSlotBooked, subscribed, route>>
    /\ \E io \in IoResults :
          IF io = "fail" THEN FetchCatch(p, "storage failure")
          ELSE IF floc[p].venueId \notin VenueRows THEN FetchCatch(p, "no rows returned")
          ELSE FetchAwaits(p, "sport") /\ UNCHANGED floc

\* FetchSport without the throw on a missing row.
FetchSportIgnoresMissing(p) ==
    /\ fpc[p] = "sport"
    /\ UNCHANGED <<storeVars, envVars, formVars, submitVars>>
    /\ UNCHANGED <<slot, venue, sport, isSlotBooked, subscribed, route>>
    /\ \E io \in IoResults :
          IF io = "fail" THEN FetchCatch(p, "storage failure")
          ELSE FetchAwaits(p, "bookings") /\ UNCHANGED floc

\* Virtual path: the answer of from('sports').select().eq('id').single().
FetchSport(p) ==
    /\ fpc[p] = "sport"
    /\ UNCHANGED <<storeVars, envVars, formVars, submitVars>>
    /\ UNCHANGED <<slot, venue, sport, isSlotBooked, subscribed, route>>
    /\ \E io \in IoResults :
          IF io = "fail" THEN FetchCatch(p, "storage failure")
          ELSE IF floc[p].sportId \notin SportRows THEN FetchCatch(p, "no rows returned")
          ELSE FetchAwaits(p, "bookings") /\ UNCHANGED floc

\* The tempSlot object built from the decoded reference; booked is the
\* isSlotBooked of the render the effect was created in.
TempSlotOf(id, l) ==
    [id |-> id, venue_id |-> l.venueId, sport_id |-> l.sportId,
     date |-> l.date, start_time |-> l.time, end_time |-> EndTimeOf(l.time),
     price |-> 0, available |-> ~l.isSlotBooked]

\* Virtual path: the answer of the load-time bookings check, then the
\* construction of tempSlot and the three setState calls.
FetchBookings(p) ==
    /\ fpc[p] = "bookings"
    /\ UNCHANGED <<storeVars, envVars, formVars, submitVars>>
    /\ UNCHANGED <<subscribed, route>>
    /\ \E io \in IoResults :
          LET l == floc[p]
              slotDateTime == StoreTimestamp(l.date, l.time)
          IN
          IF io = "fail"
          THEN /\ FetchCatch(p, "storage failure")
               /\ UNCHANGED <<slot, venue, sport, isSlotBooked>>
          ELSE IF slotDateTime = NoTimestamp
          THEN /\ FetchCatch(p, "invalid input syntax for type timestamp")
               /\ UNCHANGED <<slot, venue, sport, isSlotBooked>>
          ELSE /\ isSlotBooked' = [isSlotBooked EXCEPT ![p] =
                      @ \/ BookingsAt(l.venueId, l.sportId, slotDateTime) # {}]
               /\ slot' = [slot EXCEPT ![p] = TempSlotOf(slotId[p], l)]
               /\ venue' = [venue EXCEPT ![p] = [id |-> l.venueId]]
               /\ sport' = [sport EXCEPT ![p] = [id |-> l.sportId]]
               /\ floc' = [floc EXCEPT ![p].tempSlot = TempSlotOf(slotId[p], l)]
               /\ FetchAwaits(p, "pricing")

\* FetchPricing without the throw on pricingError: the slot keeps the price
\* it was built with.
FetchPricingIgnoresError(p) ==
    /\ fpc[p] = "pricing"
    /\ UNCHANGED <<storeVars, envVars, formVars, submitVars>>
    /\ UNCHANGED <<venue, sport, isSlotBooked, route>>
    /\ \E io \in IoResults :
          LET l == floc[p] IN
          /\ slot' = [slot EXCEPT ![p] =
                        IF io = "fail" THEN l.tempSlot
                        ELSE [l.tempSlot EXCEPT !.price =
                                 ResolvePrice(PricingRows(l.venueId), l.date, l.time, tz)]]
          /\ subscribed' = [subscribed EXCEPT ![p] = TRUE]
          /\ FetchEnds(p)
          /\ UNCHANGED <<error, timer>>

\* Virtual path: the answer of from('venue_pricing'), the price, the
\* subscription and the finally.
FetchPricing(p) ==
    /\ fpc[p] = "pricing"
    /\ UNCHANGED <<storeVars, envVars, formVars, submitVars>>
    /\ UNCHANGED <<venue, sport, isSlotBooked, route>>
    /\ \E io \in IoResults :
          IF io = "fail"
          THEN /\ FetchCatch(p, "storage failure")
               /\ UNCHANGED <<slot, subscribed>>
          ELSE LET l == floc[p] IN
               /\ slot' = [slot EXCEPT ![p] =
                             [l.tempSlot EXCEPT !.price =
                                 ResolvePrice(PricingRows(l.venueId), l.date, l.time, tz)]]
               /\ subscribed' = [subscribed EXCEPT ![p] = TRUE]
               /\ FetchEnds(p)
               /\ UNCHANGED <<error, timer>>

\* The object the store returns for a row of slots.
SlotDataOf(id, flag) ==
    [id |-> id, venue_id |-> SlotRow(id).venue_id,
     sport_id |-> SlotRow(id).sport_id, date |-> SlotRow(id).date,
     start_time |-> SlotRow(id).start_time, end_time |-> SlotRow(id).end_time,
     price |-> SlotRow(id).price, available |-> flag]

\* FetchSlotRow without the return on an unavailable slot.
FetchSlotRowNoReturn(p) ==
    /\ fpc[p] = "slotrow"
    /\ UNCHANGED <<storeVars, envVars, formVars, submitVars>>
    /\ UNCHANGED <<venue, sport, subscribed>>
    /\ \E io \in IoResults :
          IF io = "fail" \/ slotId[p] \notin SlotRows
          THEN /\ FetchCatch(p, IF version[p] = 2
                                THEN "Could not find the selected slot. It may have been removed."
                                ELSE IF io = "fail" THEN "storage failure"
                                     ELSE "no rows returned")
               /\ UNCHANGED <<slot, isSlotBooked, route>>
          ELSE /\ isSlotBooked' = [isSlotBooked EXCEPT ![p] =
                      @ \/ (version[p] = 1 /\ ~available[slotId[p]])]
               /\ route' = [route EXCEPT ![p] =
                      IF available[slotId[p]] THEN @ ELSE "/slots"]
               /\ slot' = [slot EXCEPT ![p] = SlotDataOf(slotId[p], available[slotId[p]])]
               /\ FetchAwaits(p, "slotvenue")
               /\ UNCHANGED floc

\* Persisted path: the answer of from('slots').select().eq('id').single().
FetchSlotRow(p) ==
    /\ fpc[p] = "slotrow"
    /\ UNCHANGED <<storeVars, envVars, formVars, submitVars>>
    /\ UNCHANGED <<venue, sport, subscribed>>
    /\ \E io \in IoResults :
          IF io = "fail" \/ slotId[p] \notin SlotRows
          THEN /\ FetchCatch(p, IF version[p] = 2
                                THEN "Could not find the selected slot. It may have been removed."
                                ELSE IF io = "fail" THEN "storage failure"
                                     ELSE "no rows returned")
               /\ UNCHANGED <<slot, isSlotBooked, route>>
          ELSE IF ~available[slotId[p]]
          THEN /\ isSlotBooked' = [isSlotBooked EXCEPT ![p] = @ \/ version[p] = 1]
               /\ route' = [route EXCEPT ![p] = "/slots"]
               /\ FetchEnds(p)
               /\ UNCHANGED <<slot, error, timer>>
          ELSE /\ slot' = [slot EXCEPT ![p] = SlotDataOf(slotId[p], available[slotId[p]])]
               /\ FetchAwaits(p, "slotvenue")
               /\ UNCHANGED <<isSlotBooked, route, floc>>

\* Persisted path: the answer of the venue lookup.
FetchSlotVenue(p) ==
    /\ fpc[p] = "slotvenue"
    /\ UNCHANGED <<storeVars, envVars, formVars, submitVars>>
    /\ UNCHANGED <<slot, sport, isSlotBooked, subscribed, route>>
    /\ \E io \in IoResults :
          IF io = "fail"
          THEN FetchCatch(p, "storage failure") /\ UNCHANGED venue
          ELSE IF slot[p].venue_id \notin VenueRows
          THEN FetchCatch(p, "no rows returned") /\ UNCHANGED venue
          ELSE /\ venue' = [venue EXCEPT ![p] = [id |-> slot[p].venue_id]]
               /\ FetchAwaits(p, "slotsport")
               /\ UNCHANGED floc

\* Persisted path: the answer of the sport lookup, the subscription (first
\* version) and the finally.
FetchSlotSport(p) ==
    /\ fpc[p] = "slotsport"
    /\ UNCHANGED <<storeVars, envVars, formVars, submitVars>>
    /\ UNCHANGED <<slot, venue, isSlotBooked, route>>
    /\ \E io \in IoResults :
          IF io = "fail"
          THEN FetchCatch(p, "storage failure") /\ UNCHANGED <<sport, subscribed>>
          ELSE IF slot[p].sport_id \notin SportRows
          THEN FetchCatch(p, "no rows returned") /\ UNCHANGED <<sport, subscribed>>
          ELSE /\ sport' = [sport EXCEPT ![p] = [id |-> slot[p].sport_id]]
               /\ subscribed' = [subscribed EXCEPT ![p] = version[p] = 1]
               /\ FetchEnds(p)
               /\ UNCHANGED <<error, timer>>

\* The setTimeout of the catch fires: the page leaves for /slots.
ErrorRedirect(p) ==
    /\ timer[p]
    /\ timer' = [timer EXCEPT ![p] = FALSE]
    /\ route' = [route EXCEPT ![p] = "/slots"]
    /\ UNCHANGED <<storeVars, envVars, formVars, submitVars, fetchVars>>
    /\ UNCHANGED <<slot, venue, sport, isLoading, error, isSlotBooked, subscribed>>

(***************************************************************************)
(* A change of slotId while fetchSlotDetails waits for the store: the      *)
(* effect runs again and nothing stops the run of the reference before.    *)
(***************************************************************************)
\* The reference a page is sent on to while it resolves the one before: the
\* evening slot of the second venue and sport.
Overlaps == {EncodeTempId(VenueB, SportB, DateMonBasic, TimeEvening)}

\* The router changes the slotId of a page whose fetchSlotDetails waits for
\* an answer of the persisted path: the effect starts a second run for the
\* new reference, and the first run stays suspended at its await with its
\* own slotId and slotData.
ChangeSlotInFlight(p) ==
    /\ route[p] = "/booking"
    /\ user[p] # NullText
    /\ fpc[p] \in {"slotrow", "slotvenue", "slotsport"}
    /\ stale[p] = NoRow
    /\ \E id \in Overlaps \ {slotId[p]} :
          /\ stale' = [stale EXCEPT ![p] =
                         [pc |-> fpc[p], slotId |-> slotId[p],
                          slotData |-> IF fpc[p] = "slotrow" THEN NoRow ELSE slot[p]]]
          /\ slotId' = [slotId EXCEPT ![p] = id]
          /\ RunEffectOn(p, id)
    /\ UNCHANGED <<tz, version, user, rules, quote, published, inbox, auth>>

\* The finally of the run of the reference before.
StaleEnds(p) ==
    /\ isLoading' = [isLoading EXCEPT ![p] = FALSE]
    /\ stale' = [stale EXCEPT ![p] = NoRow]

\* catch and finally of the run of the reference before.
StaleCatch(p, message) ==
    /\ error' = [error EXCEPT ![p] = message]
    /\ timer' = [timer EXCEPT ![p] = TRUE]
    /\ StaleEnds(p)

\* The run of the reference before: the answer of from('slots').
StaleSlotRow(p) ==
    /\ stale[p] # NoRow
    /\ stale[p].pc = "slotrow"
    /\ UNCHANGED <<storeVars, formVars, submitVars, fetchVars>>
    /\ UNCHANGED <<tz, version, slotId, user, rules, quote, published, inbox, auth>>
    /\ UNCHANGED <<venue, sport, subscribed>>
    /\ LET id == stale[p].slotId IN
       \E io \in IoResults :
          IF io = "fail" \/ id \notin SlotRows
          THEN /\ StaleCatch(p, IF version[p] = 2
                                THEN "Could not find the selected slot. It may have been removed."
                                ELSE IF io = "fail" THEN "storage failure"
                                     ELSE "no rows returned")
               /\ UNCHANGED <<slot, isSlotBooked, route>>
          ELSE IF ~available[id]
          THEN /\ isSlotBooked' = [isSlotBooked EXCEPT ![p] = @ \/ version[p] = 1]
               /\ route' = [route EXCEPT ![p] = "/slots"]
               /\ StaleEnds(p)
               /\ UNCHANGED <<slot, error, timer>>
          ELSE /\ slot' = [slot EXCEPT ![p] = SlotDataOf(id, available[id])]
               /\ stale' = [stale EXCEPT ![p] =
                              [pc |-> "slotvenue", slotId |-> id,
                               slotData |-> SlotDataOf(id, available[id])]]
               /\ UNCHANGED <<isSlotBooked, route, isLoading, error, timer>>

\* The run of the reference before: the answer of the venue lookup.
StaleSlotVenue(p) ==
    /\ stale[p] # NoRow
    /\ stale[p].pc = "slotvenue"
    /\ UNCHANGED <<storeVars, formVars, submitVars, fetchVars>>
    /\ UNCHANGED <<tz, version, slotId, user, rules, quote, published, inbox, auth>>
    /\ UNCHANGED <<slot, sport, isSlotBooked, subscribed, route>>
    /\ \E io \in IoResults :
          IF io = "fail"
          THEN StaleCatch(p, "storage failure") /\ UNCHANGED venue
          ELSE IF stale[p].slotData.venue_id \notin VenueRows
          THEN StaleCatch(p, "no rows returned") /\ UNCHANGED venue
          ELSE /\ venue' = [venue EXCEPT ![p] = [id |-> stale[p].slotData.venue_id]]
               /\ stale' = [stale EXCEPT ![p].pc = "slotsport"]
               /\ UNCHANGED <<isLoading, error, timer>>

\* The run of the reference before: the answer of the sport lookup, the
\* subscription (first version) and the finally.
StaleSlotSport(p) ==
    /\ stale[p] # NoRow
    /\ stale[p].pc = "slotsport"
    /\ UNCHANGED <<storeVars, formVars, submitVars, fetchVars>>
    /\ UNCHANGED <<tz, version, slotId, user, rules, quote, published, inbox, auth>>
    /\ UNCHANGED <<slot, venue, isSlotBooked, route>>
    /\ \E io \in IoResults :
          IF io = "fail"
          THEN StaleCatch(p, "storage failure") /\ UNCHANGED <<sport, subscribed>>
          ELSE IF stale[p].slotData.sport_id \notin SportRows
          THEN StaleCatch(p, "no rows returned") /\ UNCHANGED <<sport, subscribed>>
          ELSE /\ sport' = [sport EXCEPT ![p] = [id |-> stale[p].slotData.sport_id]]
               /\ subscribed' = [subscribed EXCEPT ![p] = version[p] = 1]
               /\ StaleEnds(p)
               /\ UNCHANGED <<error, timer>>

(***************************************************************************)
(* The form and handleSubmit.                                              *)
(***************************************************************************)
NameAsha == <<"A", "s", "h", "a">>

NameBlank == <<" ", " ">>

PhoneTen == <<"9", "8", "7", "6", "5", "4", "3", "2", "1", "0">>

PhoneFive == <<"1", "2", "3", "-", "4", "5">>

\* What the user types into the two fields before submitting the form.
Contacts ==
    { [name |-> NameAsha, phone |-> PhoneTen],
      [name |-> NameBlank, phone |-> PhoneTen],
      [name |-> NameAsha, phone |-> EmptyText],
      [name |-> NameAsha, phone |-> PhoneFive] }

\* onChange of the phone field: e.target.value.replace(/\D/g, '').
DigitsOnly(s) == SelectSeq(s, LAMBDA ch : ch \in Digits)

\* Both inputs are `required`: the browser dispatches the submit event only
\* when each has a value.
FieldsFilled(n, ph) == n # EmptyText /\ ph # EmptyText

\* The page renders the form: none of the early returns of the render
\* (loading, error, missing slot, venue or sport) applies, and the router
\* still shows the page.
FormRendered(p) ==
    /\ route[p] = "/booking"
    /\ ~isLoading[p]
    /\ error[p] = Null
    /\ slot[p] # NoRow /\ venue[p] # NoRow /\ sport[p] # NoRow

\* The page never reading its mark.
MarkedBookedNever(p) == FALSE

\* The isSlotBooked the render reads, which only the first version has.
MarkedBooked(p) == version[p] = 1 /\ isSlotBooked[p]

\* The submit button is not disabled.
ButtonEnabled(p) ==
    ~(isSubmitting[p] \/ MarkedBooked(p))

\* The validation guards without the check of the phone's length.
ValidContactNoLength(n, ph) ==
    ~(Trim(n) = EmptyText \/ Trim(ph) = EmptyText)

\* The contact details pass the two validation guards.
ValidContact(n, ph) ==
    /\ ~(Trim(n) = EmptyText \/ Trim(ph) = EmptyText)
    /\ ~(Len(ph) < MinPhoneLength)

\* SubmitEnds without the finally: isSubmitting keeps its value.
SubmitEndsKeepsSubmitting(p, result) ==
    /\ outcome' = [outcome EXCEPT ![p] = result]
    /\ UNCHANGED isSubmitting
    /\ spc' = [spc EXCEPT ![p] = "idle"]
    /\ sub' = [sub EXCEPT ![p] = NoRow]

\* The end of a handleSubmit: its toast and navigation, and (finally)
\* isSubmitting reset; its closure and locals are gone.
SubmitEnds(p, result) ==
    /\ outcome' = [outcome EXCEPT ![p] = result]
    /\ isSubmitting' = [isSubmitting EXCEPT ![p] = FALSE]
    /\ spc' = [spc EXCEPT ![p] = "idle"]
    /\ sub' = [sub EXCEPT ![p] = NoRow]

\* new Date(`${slot.date}T${slot.start_time}`).toISOString(), with the
\* current time as the fallback of an invalid date (first version).
SlotTimeV1(p, s) ==
    LET slotDateTime == JsDateTime(s.date, s.start_time, tz) IN
    IF slotDateTime = NoTimestamp THEN NowOf(p) ELSE slotDateTime

\* The regular expression /^\d{4}-\d{2}-\d{2}$/.
MatchesDateShape(s) ==
    /\ Len(s) = 10
    /\ s[5] = Dash /\ s[8] = Dash
    /\ AllDigits(SubSeq(s, 1, 4)) /\ AllDigits(SubSeq(s, 6, 7))
    /\ AllDigits(SubSeq(s, 9, 10))

\* The regular expression /^\d{2}:\d{2}:\d{2}$/ on the time part.
MatchesTimeShape(s) ==
    /\ Len(s) = 8
    /\ s[3] = ":" /\ s[6] = ":"
    /\ AllDigits(SubSeq(s, 1, 2)) /\ AllDigits(SubSeq(s, 4, 5))
    /\ AllDigits(SubSeq(s, 7, 8))

\* The slot time construction of the second version: the text
\* "<date> <start_time>", or a thrown error.  A date of another shape goes
\* through new Date(); none of the date texts of the model parses there.
SlotTimeV2(s) ==
    IF s.date = EmptyText \/ s.start_time = EmptyText THEN [ok |-> FALSE]
    ELSE IF ~MatchesDateShape(s.date) THEN [ok |-> FALSE]
    ELSE IF ~MatchesTimeShape(s.start_time) THEN [ok |-> FALSE]
    ELSE [ok |-> TRUE, date |-> s.date, time |-> s.start_time]

\* BookingOf without the id of the user.
BookingOfNoUser(p, c, slotTime) ==
    [id |-> p, user_id |-> NullText, venue_id |-> c.venue.id,
     sport_id |-> c.sport.id,
     slot_id |-> IF version[p] = 1 /\ IsTemp(c.slot.id) THEN NullText ELSE c.slot.id,
     slot_time |-> slotTime, status |-> "confirmed",
     full_name |-> c.name, phone |-> c.phone, amount |-> c.slot.price]

\* BookingOf carrying the reference of a virtual slot as slot_id.
BookingOfKeepsTempId(p, c, slotTime) ==
    [id |-> p, user_id |-> c.user, venue_id |-> c.venue.id,
     sport_id |-> c.sport.id, slot_id |-> c.slot.id,
     slot_time |-> slotTime, status |-> "confirmed",
     full_name |-> c.name, phone |-> c.phone, amount |-> c.slot.price]

\* The booking row handleSubmit builds from its closure.
BookingOf(p, c, slotTime) ==
    [id |-> p, user_id |-> c.user, venue_id |-> c.venue.id,
     sport_id |-> c.sport.id,
     slot_id |-> IF version[p] = 1 /\ IsTemp(c.slot.id) THEN NullText ELSE c.slot.id,
     slot_time |-> slotTime, status |-> "confirmed",
     full_name |-> c.name, phone |-> c.phone, amount |-> c.slot.price]

\* A confirmed booking for the venue, the sport and the time of the slot
\* the page shows is in the store.
SlotTaken(p) ==
    \E b \in bookings :
        /\ b.status = "confirmed"
        /\ b.venue_id = slot[p].venue_id
        /\ b.sport_id = slot[p].sport_id
        /\ b.slot_time = StoreTimestamp(slot[p].date, slot[p].start_time)

\* handleSubmit up to its first await, on the values of the render it was
\* created in; n and ph are the contents of the two fields.  The closure
\* also remembers (for the properties only) whether the slot was taken when
\* the submit began.
HandleSubmit(p, n, ph) ==
    LET closure == [slot |-> slot[p], venue |-> venue[p], sport |-> sport[p],
                    user |-> user[p], name |-> n, phone |-> ph,
                    booking |-> NoRow, taken |-> SlotTaken(p)]
    IN
    IF user[p] = NullText
    THEN /\ SubmitEnds(p, "NotLoggedIn")
         /\ route' = [route EXCEPT ![p] = "/auth"]
         /\ trail' = [trail EXCEPT ![p] = << >>]
    ELSE IF slot[p] = NoRow \/ venue[p] = NoRow \/ sport[p] = NoRow
    THEN /\ SubmitEnds(p, "InvalidSelection")
         /\ trail' = [trail EXCEPT ![p] = << >>]
         /\ UNCHANGED route
    ELSE IF MarkedBooked(p)
    THEN /\ SubmitEnds(p, "AlreadyBooked")
         /\ trail' = [trail EXCEPT ![p] = << >>]
         /\ UNCHANGED route
    ELSE IF ~ValidContact(n, ph)
    THEN /\ SubmitEnds(p, "ValidationError")
         /\ trail' = [trail EXCEPT ![p] = << >>]
         /\ UNCHANGED route
    ELSE IF version[p] = 1
    THEN \* setIsSubmitting(true); the re-check is sent
         /\ isSubmitting' = [isSubmitting EXCEPT ![p] = TRUE]
         /\ spc' = [spc EXCEPT ![p] = "check"]
         /\ sub' = [sub EXCEPT ![p] = closure]
         /\ outcome' = [outcome EXCEPT ![p] = "Pending"]
         /\ trail' = [trail EXCEPT ![p] = <<"check">>]
         /\ UNCHANGED route
    ELSE LET t == SlotTimeV2(slot[p]) IN
         IF ~t.ok
         THEN /\ SubmitEnds(p, "DateError")
              /\ trail' = [trail EXCEPT ![p] = << >>]
              /\ UNCHANGED route
         ELSE \* setIsSubmitting(true); the insert is sent
              /\ isSubmitting' = [isSubmitting EXCEPT ![p] = TRUE]
              /\ spc' = [spc EXCEPT ![p] = "insert"]
              /\ sub' = [sub EXCEPT ![p] =
                           [closure EXCEPT !.booking =
                               BookingOf(p, closure, StoreTimestamp(t.date, t.time))]]
              /\ outcome' = [outcome EXCEPT ![p] = "Pending"]
              /\ trail' = [trail EXCEPT ![p] = <<"insert">>]
              /\ UNCHANGED route

\* The user fills the two fields and submits the form.
Submit(p) ==
    /\ FormRendered(p)
    /\ ButtonEnabled(p)
    /\ \E c \in Contacts :
          LET n == c.name
              ph == DigitsOnly(c.phone)
          IN /\ FieldsFilled(n, ph)
             /\ name' = [name EXCEPT ![p] = n]
             /\ phone' = [phone EXCEPT ![p] = ph]
             /\ HandleSubmit(p, n, ph)
    /\ raced' = IF spc'[p] = "idle"
                THEN raced
                ELSE [q \in Pages |->
                        IF q = p THEN \E r \in Pages \ {p} : spc[r] # "idle"
                        ELSE raced[q] \/ spc[q] # "idle"]
    /\ UNCHANGED <<storeVars, envVars, fetchVars>>
    /\ UNCHANGED <<slot, venue, sport, isLoading, error, isSlotBooked, timer,
                   subscribed>>

\* The re-check found the slot taken.
CheckFindsTaken(p) ==
    LET c == sub[p] IN
    IF IsTemp(c.slot.id)
    THEN BookingsAt(c.slot.venue_id, c.slot.sport_id,
                    StoreTimestamp(c.slot.date, c.slot.start_time)) # {}
    ELSE ~available[c.slot.id]

\* The re-check cannot be answered: a malformed literal, or no row for
\* .single().
CheckErrors(p) ==
    LET c == sub[p] IN
    IF IsTemp(c.slot.id)
    THEN StoreTimestamp(c.slot.date, c.slot.start_time) = NoTimestamp
    ELSE c.slot.id \notin SlotRows

\* First version: the answer of the availability re-check; when the slot is
\* free the booking is built and the insert is sent.
SubmitCheck(p) ==
    /\ spc[p] = "check"
    /\ UNCHANGED raced
    /\ UNCHANGED <<storeVars, envVars, formVars, fetchVars>>
    /\ UNCHANGED <<slot, venue, sport, isLoading, error, route, timer, subscribed>>
    /\ \E io \in IoResults :
          IF io = "fail" \/ CheckErrors(p)
          THEN /\ SubmitEnds(p, "Exception")
               /\ UNCHANGED <<trail, isSlotBooked>>
          ELSE IF CheckFindsTaken(p)
          THEN /\ isSlotBooked' = [isSlotBooked EXCEPT ![p] = TRUE]
               /\ SubmitEnds(p, "Conflict")
               /\ UNCHANGED trail
          ELSE /\ sub' = [sub EXCEPT ![p].booking =
                             BookingOf(p, sub[p], SlotTimeV1(p, sub[p].slot))]
               /\ spc' = [spc EXCEPT ![p] = "insert"]
               /\ trail' = [trail EXCEPT ![p] = Append(@, "insert")]
               /\ UNCHANGED <<isSubmitting, outcome, isSlotBooked>>

\* Whether the store takes the row: the legacy store has no uniqueness
\* constraint on bookings, so it refuses only a slot_time that is no
\* timestamp.
StoreAccepts(row) == row.slot_time # NoTimestamp

\* The slot of the closure is backed by a row of slots, whose flag is
\* flipped after the insert.
FlipsFlag(p) == version[p] = 2 \/ ~IsTemp(sub[p].slot.id)

\* SubmitInsert with the flag update sent before the error of the insert is
\* looked at.
SubmitInsertFlipsFirst(p) ==
    /\ spc[p] = "insert"
    /\ UNCHANGED raced
    /\ UNCHANGED <<envVars, formVars, fetchVars>>
    /\ UNCHANGED <<slot, venue, sport, isLoading, error, isSlotBooked, timer,
                   subscribed>>
    /\ \E io \in IoResults :
          IF io = "fail" \/ ~StoreAccepts(sub[p].booking)
          THEN /\ available' = IF FlipsFlag(p) /\ sub[p].slot.id \in SlotRows
                                THEN [available EXCEPT ![sub[p].slot.id] = FALSE]
                                ELSE available
               /\ trail' = [trail EXCEPT ![p] =
                               IF FlipsFlag(p) THEN Append(@, "flip") ELSE @]
               /\ SubmitEnds(p, "InsertFailed")
               /\ UNCHANGED <<bookings, route>>
          ELSE /\ bookings' = bookings \cup {sub[p].booking}
               /\ UNCHANGED available
               /\ IF FlipsFlag(p)
                  THEN /\ spc' = [spc EXCEPT ![p] = "flip"]
                       /\ trail' = [trail EXCEPT ![p] = Append(@, "flip")]
                       /\ UNCHANGED <<isSubmitting, outcome, route, sub>>
                  ELSE /\ SubmitEnds(p, "Confirmed")
                       /\ route' = [route EXCEPT ![p] = "/booking-success"]
                       /\ UNCHANGED trail

\* SubmitInsert sending the insert again after a failure.
SubmitInsertRetries(p) ==
    /\ spc[p] = "insert"
    /\ UNCHANGED raced
    /\ UNCHANGED <<envVars, formVars, fetchVars, available>>
    /\ UNCHANGED <<slot, venue, sport, isLoading, error, isSlotBooked, timer,
                   subscribed>>
    /\ \E io \in IoResults :
          IF io = "fail" \/ ~StoreAccepts(sub[p].booking)
          THEN IF Len(trail[p]) < 3
               THEN /\ trail' = [trail EXCEPT ![p] = Append(@, "insert")]
                    /\ UNCHANGED <<bookings, route, isSubmitting, spc, sub, outcome>>
               ELSE /\ SubmitEnds(p, "InsertFailed")
                    /\ UNCHANGED <<bookings, trail, route>>
          ELSE /\ bookings' = bookings \cup {sub[p].booking}
               /\ IF FlipsFlag(p)
                  THEN /\ spc' = [spc EXCEPT ![p] = "flip"]
                       /\ trail' = [trail EXCEPT ![p] = Append(@, "flip")]
                       /\ UNCHANGED <<isSubmitting, outcome, route, sub>>
                  ELSE /\ SubmitEnds(p, "Confirmed")
                       /\ route' = [route EXCEPT ![p] = "/booking-success"]
                       /\ UNCHANGED trail

\* The answer of from('bookings').insert(booking).select().single().
SubmitInsert(p) ==
    /\ spc[p] = "insert"
    /\ UNCHANGED raced
    /\ UNCHANGED <<envVars, formVars, fetchVars, available>>
    /\ UNCHANGED <<slot, venue, sport, isLoading, error, isSlotBooked, timer,
                   subscribed>>
    /\ \E io \in IoResults :
          IF io = "fail" \/ ~StoreAccepts(sub[p].booking)
          THEN /\ SubmitEnds(p, "InsertFailed")
               /\ UNCHANGED <<bookings, trail, route>>
          ELSE /\ bookings' = bookings \cup {sub[p].booking}
               /\ IF FlipsFlag(p)
                  THEN /\ spc' = [spc EXCEPT ![p] = "flip"]
                       /\ trail' = [trail EXCEPT ![p] = Append(@, "flip")]
                       /\ UNCHANGED <<isSubmitting, outcome, route, sub>>
                  ELSE /\ SubmitEnds(p, "Confirmed")
                       /\ route' = [route EXCEPT ![p] = "/booking-success"]
                       /\ UNCHANGED trail

\* SubmitFlip taking the booking back when the flag update fails.
SubmitFlipRollsBack(p) ==
    /\ spc[p] = "flip"
    /\ UNCHANGED raced
    /\ UNCHANGED <<envVars, formVars, fetchVars>>
    /\ UNCHANGED <<slot, venue, sport, isLoading, error, isSlotBooked, timer,
                   subscribed, trail>>
    /\ \E io \in IoResults :
          IF io = "ok" /\ sub[p].slot.id \in SlotRows
          THEN /\ available' = [available EXCEPT ![sub[p].slot.id] = FALSE]
               /\ UNCHANGED bookings
          ELSE /\ bookings' = bookings \ {sub[p].booking}
               /\ UNCHANGED available
    /\ SubmitEnds(p, "Confirmed")
    /\ route' = [route EXCEPT ![p] = "/booking-success"]

\* SubmitFlip writing the negation of the flag.
SubmitFlipToggles(p) ==
    /\ spc[p] = "flip"
    /\ UNCHANGED raced
    /\ UNCHANGED <<envVars, formVars, fetchVars, bookings>>
    /\ UNCHANGED <<slot, venue, sport, isLoading, error, isSlotBooked, timer,
                   subscribed, trail>>
    /\ \E io \in IoResults :
          available' = IF io = "ok" /\ sub[p].slot.id \in SlotRows
                       THEN [available EXCEPT ![sub[p].slot.id] = ~@]
                       ELSE available
    /\ SubmitEnds(p, "Confirmed")
    /\ route' = [route EXCEPT ![p] = "/booking-success"]

\* The answer of from('slots').update({available: false}).eq('id'), which
\* the code does not look at; then the success toast and the navigation.
SubmitFlip(p) ==
    /\ spc[p] = "flip"
    /\ UNCHANGED raced
    /\ UNCHANGED <<envVars, formVars, fetchVars, bookings>>
    /\ UNCHANGED <<slot, venue, sport, isLoading, error, isSlotBooked, timer,
                   subscribed, trail>>
    /\ \E io \in IoResults :
          available' = IF io = "ok" /\ sub[p].slot.id \in SlotRows
                       THEN [available EXCEPT ![sub[p].slot.id] = FALSE]
                       ELSE available
    /\ SubmitEnds(p, "Confirmed")
    /\ route' = [route EXCEPT ![p] = "/booking-success"]

(***************************************************************************)
(* The realtime feed of bookings, and pages that are closed.               *)
(***************************************************************************)
\* String(n).padStart(4, '0') of a number below 10000.
FourDigits(n) == TwoDigits(n \div 100) \o TwoDigits(n % 100)

\* The civil date of a day number, as yyyy-MM-dd.
FormatIsoDate(days) ==
    LET z   == days + 719468
        era == z \div 146097
        doe == z - era * 146097
        yoe == (doe - doe \div 1460 + doe \div 36524 - doe \div 146096) \div 365
        doy == doe - (365 * yoe + yoe \div 4 - yoe \div 100)
        mp  == (5 * doy + 2) \div 153
        d   == doy - (153 * mp + 2) \div 5 + 1
        m   == IF mp < 10 THEN mp + 3 ELSE mp - 9
        y   == yoe + era * 400 + (IF m <= 2 THEN 1 ELSE 0)
    IN FourDigits(y) \o <<Dash>> \o TwoDigits(m) \o <<Dash>> \o TwoDigits(d)

\* payload.new.slot_time: the text the feed sends for a timestamptz, with
\* the offset of the store's zone; the current time of a page is a text of
\* its own.
WireTimestamp(t) ==
    IF t.kind = "instant"
    THEN FormatIsoDate(t.at \div 86400) \o <<"T">> \o FormatClock(t.at % 86400)
            \o <<"+", "0", "0", ":", "0", "0">>
    ELSE <<"n", "o", "w", ToString(t.at)>>

\* The `slot` the channel callback closes over: the one of the render whose
\* effect created fetchSlotDetails, which is before any setSlot.
EffectSlot(p) == NoRow

\* The callback of the channel decides that the inserted row takes the slot
\* of the page.
OnInsertMarksBooked(p, row) ==
    LET s == EffectSlot(p) IN
    IF s # NoRow /\ IsTemp(s.id) /\ row.venue_id = s.venue_id
                 /\ row.sport_id = s.sport_id
    THEN WireTimestamp(row.slot_time) = s.date \o <<"T">> \o s.start_time
    ELSE row.slot_id = slotId[p]

\* The feed sends the INSERT of a booking to the channels subscribed now.
Publish ==
    /\ \E b \in bookings :
          /\ b.id \notin published
          /\ published' = published \cup {b.id}
          /\ inbox' = [q \in Pages |->
                          IF subscribed[q] THEN inbox[q] \cup {b.id} ELSE inbox[q]]
    /\ UNCHANGED <<tz, version, slotId, user, rules, quote, stale, auth>>
    /\ UNCHANGED <<storeVars, formVars, viewVars, fetchVars, submitVars>>

\* An INSERT event reaches the channel of page p and its callback runs on
\* the row; the channel outlives the page (the cleanup fetchSlotDetails
\* returns is never registered), a page that has left sets no state.
DeliverRow(p, b) ==
    /\ subscribed[p]
    /\ b.id \in inbox[p]
    /\ inbox' = [inbox EXCEPT ![p] = @ \ {b.id}]
    /\ isSlotBooked' = [isSlotBooked EXCEPT ![p] =
          @ \/ (route[p] = "/booking" /\ OnInsertMarksBooked(p, b))]
    /\ UNCHANGED <<tz, version, slotId, user, rules, quote, published, stale, auth>>
    /\ UNCHANGED <<storeVars, formVars, fetchVars, submitVars>>
    /\ UNCHANGED <<slot, venue, sport, isLoading, error, route, timer, subscribed>>

Deliver(p) == \E b \in bookings : DeliverRow(p, b)

\* The browser of page p is closed while handleSubmit waits for an answer:
\* the request on its way may or may not reach the store, and nothing after
\* the await runs.
Abandon(p) ==
    /\ spc[p] # "idle"
    /\ \E applied \in BOOLEAN :
          /\ bookings' = IF applied /\ spc[p] = "insert"
                            /\ StoreAccepts(sub[p].booking)
                         THEN bookings \cup {sub[p].booking}
                         ELSE bookings
          /\ available' = IF applied /\ spc[p] = "flip"
                             /\ sub[p].slot.id \in SlotRows
                          THEN [available EXCEPT ![sub[p].slot.id] = FALSE]
                          ELSE available
    /\ spc' = [spc EXCEPT ![p] = "idle"]
    /\ sub' = [sub EXCEPT ![p] = NoRow]
    /\ outcome' = [outcome EXCEPT ![p] = "Abandoned"]
    /\ route' = [route EXCEPT ![p] = "closed"]
    /\ subscribed' = [subscribed EXCEPT ![p] = FALSE]
    /\ inbox' = [inbox EXCEPT ![p] = {}]
    /\ timer' = [timer EXCEPT ![p] = FALSE]
    /\ UNCHANGED <<tz, version, slotId, user, rules, quote, published, stale, auth>>
    /\ UNCHANGED <<formVars, fetchVars, isSubmitting, trail, raced>>
    /\ UNCHANGED <<slot, venue, sport, isLoading, error, isSlotBooked>>

(***************************************************************************)
(* The commit protocol: pages racing against the shared store.             *)
(***************************************************************************)
Fetch(p) ==
    \/ RunEffect(p)
    \/ FetchVenue(p)
    \/ FetchSport(p)
    \/ FetchBookings(p)
    \/ FetchPricing(p)
    \/ FetchSlotRow(p)
    \/ FetchSlotVenue(p)
    \/ FetchSlotSport(p)
    \/ ErrorRedirect(p)

Commit(p) ==
    \/ Submit(p)
    \/ SubmitCheck(p)
    \/ SubmitInsert(p)
    \/ SubmitFlip(p)

Next == \E p \in Pages : Fetch(p) \/ Commit(p)

Spec == Init /\ [][Next]_vars

\* The commit protocol with the realtime feed running and with pages that
\* may be closed in the middle of a submit.
NextLive ==
    \/ Next
    \/ Publish
    \/ \E p \in Pages : Deliver(p)
    \/ \E p \in Pages : Abandon(p)

SpecLive == Init /\ [][NextLive]_vars

\* The commit protocol with pages that are sent on to another reference.
NextRevisit == Next \/ \E p \in Pages : ChangeSlot(p)

SpecRevisit == Init /\ [][NextRevisit]_vars

(***************************************************************************)
(* Properties of the commit protocol.                                      *)
(***************************************************************************)
\* The uniqueness key of a booking.
TupleOf(b) == <<b.venue_id, b.sport_id, b.slot_time>>

\* The tuple the slot a page shows stands for: its venue, its sport and its
\* date and start time merged into one instant.
TargetOf(p) ==
    <<slot[p].venue_id, slot[p].sport_id,
      StoreTimestamp(slot[p].date, slot[p].start_time)>>

\* The last handleSubmit of page p issued the storage operation op.
Issued(p, op) == \E i \in 1..Len(trail[p]) : trail[p][i] = op

\* The ways a handleSubmit ends without a booking.
RejectedOutcomes ==
    {"NotLoggedIn", "InvalidSelection", "AlreadyBooked", "ValidationError",
     "DateError", "Conflict", "InsertFailed", "Exception"}

\* C1: in every reachable state of the store there is at most one confirmed
\* booking for any (venue_id, sport_id, slot timestamp) tuple.
C1_OneConfirmedBookingPerTuple ==
    \A b1, b2 \in bookings :
        (/\ b1.status = "confirmed"
         /\ b2.status = "confirmed"
         /\ TupleOf(b1) = TupleOf(b2)) => b1 = b2

\* C2: of the submits with valid contact details that ran concurrently on
\* the same (venue, sport, time) and have all ended Confirmed or with
\* Conflict (no round trip of theirs failed), exactly one ended Confirmed.
C2_ExactlyOneConfirmed ==
    \A p \in Pages :
        LET callers == {q \in Pages : /\ raced[q]
                                      /\ slot[q] # NoRow
                                      /\ slot[p] # NoRow
                                      /\ TargetOf(q) = TargetOf(p)}
        IN (/\ raced[p]
            /\ \A q \in callers : outcome[q] \in {"Confirmed", "Conflict"})
           => Cardinality({q \in callers : outcome[q] = "Confirmed"}) = 1

\* C3: the available flag of a row of slots is false exactly when a
\* confirmed booking references the row.
C3_FlagFalseIffBooked ==
    \A id \in SlotRows :
        (~available[id]) <=>
            (\E b \in bookings : b.status = "confirmed" /\ b.slot_id = id)

\* C4: once a submit for a row of slots has ended Confirmed, the flag of the
\* row is false, then and ever after (the outcome of the page stays).
C4_ConfirmedMeansFlagFalse ==
    \A p \in Pages :
        (outcome[p] = "Confirmed" /\ slotId[p] \in SlotRows)
            => ~available[slotId[p]]

\* C5: a submit that ends Rejected has not issued the flag update, and the
\* step that ends it leaves every available flag as it was.
C5_RejectedNeverFlips ==
    [][\A p \in Pages :
          outcome'[p] \in RejectedOutcomes =>
              /\ ~Issued(p, "flip")'
              /\ (outcome[p] = "Pending" \/ Submit(p)) => available' = available
      ]_vars

\* C5, its case: a submit for a row of slots whose insert failed.
C5_Witness ==
    \E p \in Pages :
        /\ outcome[p] = "InsertFailed"
        /\ slotId[p] \in SlotRows
        /\ Issued(p, "insert")

\* C6: a submit that has sent the insert has run the availability check
\* first.
C6_CheckBeforeInsert ==
    \A p \in Pages : Issued(p, "insert") => trail[p][1] = "check"

\* The contact details the validation is to refuse: a name or a phone empty
\* after trimming, or a phone of fewer than ten digits.
RefusedContact(n, ph) ==
    \/ Trim(n) = EmptyText
    \/ Trim(ph) = EmptyText
    \/ Len(SelectSeq(ph, LAMBDA ch : ch \in Digits)) < 10

\* C7: a submit with such contact details ends with ValidationError, issues
\* no storage operation and changes nothing but the notification (the two
\* fields hold what the user typed for it).
C7_InvalidContactNoStorage ==
    [][\A p \in Pages :
          (Submit(p) /\ RefusedContact(name'[p], phone'[p])) =>
              /\ outcome'[p] = "ValidationError"
              /\ trail'[p] = << >>
              /\ spc'[p] = "idle"
              /\ UNCHANGED <<storeVars, envVars, viewVars, fetchVars>>
              /\ UNCHANGED <<isSubmitting, sub, raced>>
              /\ \A q \in Pages \ {p} :
                    /\ outcome'[q] = outcome[q]
                    /\ trail'[q] = trail[q]
                    /\ name'[q] = name[q]
                    /\ phone'[q] = phone[q]
      ]_vars

\* C7, its case: a submit with a phone of five digits has ended.
C7_Witness ==
    \E p \in Pages :
        /\ outcome[p] = "ValidationError"
        /\ phone[p] = DigitsOnly(PhoneFive)
        /\ trail[p] = << >>

(***************************************************************************)
(* Properties of one submit and of the flag.                               *)
(***************************************************************************)
\* How often the storage operation op occurs in a trail.
TimesIssued(t, op) == Cardinality({i \in 1..Len(t) : t[i] = op})

\* C15: one handleSubmit sends at most one insert, and once it has ended,
\* Confirmed or Rejected, the page sends nothing more until the user
\* submits again.
C15_OneInsertPerSubmit ==
    [][\A p \in Pages :
          /\ TimesIssued(trail'[p], "insert") <= 1
          /\ TimesIssued(trail'[p], "check") <= 1
          /\ (outcome[p] \in RejectedOutcomes \cup {"Confirmed"} /\ ~Submit(p))
                => /\ trail'[p] = trail[p]
                   /\ spc'[p] = "idle"
                   /\ outcome'[p] = outcome[p]
      ]_vars

\* C15, its case: a submit of the first version ended on a failed insert,
\* after one check and one insert.
C15_Witness ==
    \E p \in Pages :
        /\ outcome[p] = "InsertFailed"
        /\ spc[p] = "idle"
        /\ trail[p] = <<"check", "insert">>

\* C16: there is no state with the booking of a submit for a row of slots
\* in the store, the flag of the row still true and the success reported.
C16_NoSuccessWithFlagStillTrue ==
    \A p \in Pages :
        ~ (/\ outcome[p] = "Confirmed"
           /\ \E b \in bookings : b.id = p /\ b.slot_id \in SlotRows
                                           /\ available[b.slot_id])

\* C20: the flag of a row of slots changes only in the step after the
\* insert, and only from true to false.
C20_FlagOnlyFlipsToFalse ==
    [][\A id \in SlotRows :
          available'[id] # available[id]
            => /\ available[id] /\ ~available'[id]
               /\ \E p \in Pages : /\ SubmitFlip(p)
                                   /\ trail[p][Len(trail[p]) - 1] = "insert"
                                   /\ \E b \in bookings : b.id = p
      ]_vars

\* C20, its case: a second flag update for the row found the flag already
\* false.
C20_Witness ==
    \E p, q \in Pages :
        /\ p # q
        /\ slotId[p] \in SlotRows
        /\ slotId[q] = slotId[p]
        /\ outcome[p] = "Confirmed" /\ outcome[q] = "Confirmed"
        /\ ~available[slotId[p]]

(***************************************************************************)
(* Properties of the booking records.                                      *)
(***************************************************************************)
\* The bookings in a store that page p inserted.
BookingsOf(rows, p) == {b \in rows : b.id = p}

\* C21: the slot_time of every booking is the instant its slot's date and
\* start time merge into (read in the zone of the store or in the zone of
\* the browser), never another time.
C21_SlotTimeIsDateAndStartTime ==
    \A b \in bookings :
        LET s == slot[b.id] IN
        /\ s # NoRow
        /\ b.slot_time \in {StoreTimestamp(s.date, s.start_time),
                            JsDateTime(s.date, s.start_time, tz)}

\* C22: no step removes or changes a booking; a submit that ends Confirmed
\* has added exactly one booking and one that ends Rejected has added none.
C22_BookingsOnlyGrowOnePerConfirm ==
    [][/\ bookings \subseteq bookings'
       /\ \A p \in Pages :
             /\ outcome'[p] = "Confirmed"
                   => Cardinality(BookingsOf(bookings', p)) = 1
             /\ outcome'[p] \in RejectedOutcomes
                   => BookingsOf(bookings', p) = {}
      ]_vars

\* C22, its case: one submit ended Confirmed, another ended on a failed
\* insert, and the store holds one booking.
C22_Witness ==
    \E p, q \in Pages :
        /\ outcome[p] = "Confirmed"
        /\ outcome[q] = "InsertFailed"
        /\ Cardinality(bookings) = 1
        /\ BookingsOf(bookings, p) # {}

\* C23: the slot_id of a booking is null exactly when the page that sent it
\* was opened on a virtual reference, and is the id of the row of slots
\* otherwise.
C23_SlotIdNullIffVirtual ==
    \A b \in bookings :
        /\ b.slot_id = NullText <=> IsTemp(slotId[b.id])
        /\ ~IsTemp(slotId[b.id])
              => b.slot_id = slotId[b.id] /\ b.slot_id \in SlotRows

\* C23, its case: the store holds a booking of a virtual slot and a booking
\* of a row of slots.
C23_Witness ==
    \E b1, b2 \in bookings :
        /\ b1.slot_id = NullText /\ IsTemp(slotId[b1.id])
        /\ b2.slot_id = SlotIdA

\* C27: from a page that has marked its slot booked and has no submit
\* running, no step starts a storage operation of the page, and the mark
\* stays.
C27_MarkedBookedBlocksSubmit ==
    [][\A p \in Pages :
          (version[p] = 1 /\ isSlotBooked[p] /\ spc[p] = "idle")
          => /\ isSlotBooked'[p]
             /\ spc'[p] = "idle"
             /\ trail'[p] \in {trail[p], << >>}
             /\ ~ButtonEnabled(p)'
      ]_vars

\* C27, its case: a page still showing the form after its re-check found
\* the slot taken.
C27_Witness ==
    \E p \in Pages :
        /\ isSlotBooked[p]
        /\ FormRendered(p)
        /\ spc[p] = "idle"
        /\ outcome[p] = "Conflict"

\* C26: once a booking of a virtual slot is in the store, every later
\* load-time check of a page opened on the same reference finds it and marks
\* the slot booked.
C26_LaterCheckFindsVirtualBooking ==
    [][\A q \in Pages :
          (/\ FetchBookings(q)
           /\ fpc'[q] = "pricing"
           /\ \E b \in bookings : /\ b.id # q
                                  /\ b.slot_id = NullText
                                  /\ slotId[b.id] = slotId[q])
          => isSlotBooked'[q]
      ]_vars

\* C29: a page that has left (its component is unmounted) has no channel
\* subscribed.
C29_NoChannelOutlivesPage ==
    \A p \in Pages : subscribed[p] => route[p] = "/booking"

(***************************************************************************)
(* Properties of the commit protocol with the feed and closed pages.       *)
(***************************************************************************)
\* C17: the store holds nothing partial of a submit that was abandoned:
\* either no booking of it, or its booking and, for a row of slots, the
\* flag of the row false.
C17_AbandonLeavesNoPartialState ==
    \A p \in Pages :
        outcome[p] = "Abandoned"
        => \A b \in bookings :
              (b.id = p /\ b.slot_id \in SlotRows) => ~available[b.slot_id]

\* C18: whatever events of the feed are lost or late, a submit that began
\* when a confirmed booking for the tuple of its slot was already in the
\* store does not end Confirmed.
C18_SubmitOnTakenSlotIsRejected ==
    [][\A p \in Pages :
          (/\ sub[p] # NoRow
           /\ sub[p].taken
           /\ outcome[p] = "Pending"
           /\ outcome'[p] # "Pending") => outcome'[p] # "Confirmed"
      ]_vars

\* The inserted row is a booking of the slot s: of its venue, sport and time
\* for a virtual slot, of its row for a persisted one.
EventMatchesSlot(row, s) ==
    IF IsTemp(s.id)
    THEN /\ row.venue_id = s.venue_id
         /\ row.sport_id = s.sport_id
         /\ row.slot_time = StoreTimestamp(s.date, s.start_time)
    ELSE row.slot_id = s.id

\* C19: when the INSERT event of a booking of the slot a page displays
\* reaches the page, isSlotBooked of the page is true from that step on.
C19_MatchingInsertMarksBooked ==
    [][\A p \in Pages : \A b \in bookings :
          (/\ DeliverRow(p, b)
           /\ version[p] = 1
           /\ FormRendered(p)
           /\ EventMatchesSlot(b, slot[p])) => isSlotBooked'[p]
      ]_vars

\* The slot a page shows is taken: a confirmed booking of its venue and
\* sport for its time or for its row is in the store, or the flag of its
\* row is false.
ShownSlotTaken(p) ==
    \/ \E b \in bookings :
          /\ b.status = "confirmed"
          /\ b.venue_id = slot[p].venue_id
          /\ b.sport_id = slot[p].sport_id
          /\ \/ b.slot_time = StoreTimestamp(slot[p].date, slot[p].start_time)
             \/ b.slot_time = JsDateTime(slot[p].date, slot[p].start_time, tz)
             \/ b.slot_id = slot[p].id
    \/ slot[p].id \in SlotRows /\ ~available[slot[p].id]

\* C30: a page that shows the slot of its reference and has it marked
\* booked shows a slot that is taken.
C30_MarkedBookedOnlyIfTaken ==
    \A p \in Pages :
        (/\ version[p] = 1
         /\ isSlotBooked[p]
         /\ fpc[p] = "done"
         /\ error[p] = Null
         /\ slot[p] # NoRow
         /\ slot[p].id = slotId[p]) => ShownSlotTaken(p)

(***************************************************************************)
(* Slot resolution alone: one page opened on any reference against a store *)
(* that is fresh or holds one booking; the other pages have no session and *)
(* leave for /auth.                                                        *)
(***************************************************************************)
VenueIds == {VenueA, VenueX}

SportIds == {SportA, SportX}

IsoDates == {DateMon, DateSat}

ClockTimes == {TimeMorning, TimeEvening}

\* The references the slot-browsing page links to.
EncodedRefs ==
    {EncodeTempId(v, s, d, t) : v \in VenueIds, s \in SportIds,
                                d \in IsoDates, t \in ClockTimes}

\* "temp-": the prefix and nothing else.
TempBare == TempPrefix

\* Eight segments: no sport at all.
TempNoSport == TempPrefix \o VenueA \o <<Dash>> \o DateMonBasic \o <<Dash>> \o TimeMorning

\* Nine segments: one segment where the five of the sport belong.
TempShortSport ==
    TempPrefix \o VenueA \o <<Dash, "b", "1", Dash>> \o DateMonBasic
               \o <<Dash>> \o TimeMorning

\* Virtual references typed or edited by hand.
HandMadeRefs ==
    {TempBare, TempNoSport, TempShortSport, TempIdBasic,
     EncodeTempId(VenueA, SportA, DateMonBasic, TimeEvening),
     EncodeTempId(VenueA, SportX, DateMonBasic, TimeMorning)}

ResolveRefs == EncodedRefs \cup HandMadeRefs \cup {SlotIdA, SlotIdX, NullText}

NoSessionVisit == [version |-> 1, slotId |-> SlotIdA, user |-> FALSE]

ResolveVisits ==
    {[version |-> ver, slotId |-> id, user |-> TRUE] :
        ver \in {1, 2}, id \in ResolveRefs} \cup {NoSessionVisit}

\* The row an earlier confirmed booking of SlotIdA left in bookings.
EarlierBooking ==
    [id |-> 0, user_id |-> <<"u", "0">>, venue_id |-> VenueA,
     sport_id |-> SportA, slot_id |-> SlotIdA,
     slot_time |-> StoreTimestamp(DateMon, TimeMorning), status |-> "confirmed",
     full_name |-> NameAsha, phone |-> PhoneTen, amount |-> SlotRow(SlotIdA).price]

InitResolve ==
    /\ \E taken \in BOOLEAN :
          /\ bookings = IF taken THEN {EarlierBooking} ELSE {}
          /\ available = [id \in SlotRows |-> ~taken]
    /\ TariffInit
    /\ tz \in TzOffsets
    /\ PageInit({[p \in Pages |-> IF p = 1 THEN v ELSE NoSessionVisit] :
                    v \in ResolveVisits})

NextResolve == \E p \in Pages : Fetch(p)

SpecResolve == InitResolve /\ [][NextResolve]_vars

(***************************************************************************)
(* Properties of the slot resolution.                                      *)
(***************************************************************************)
\* The number of delimiter-separated segments of a reference.
SegmentCount(id) == Len(Split(id, Dash))

\* The reference has the segments of the expected shape: the prefix, five of
\* the venue, five of the sport, the date (one segment, or three when it is
\* written yyyy-MM-dd) and the time.
HasExpectedShape(id) ==
    SegmentCount(id) \in {1 + 5 + 5 + 1 + 1, 1 + 5 + 5 + 3 + 1}

\* The two messages the decoder throws.
MalformedMessages ==
    {"Invalid temporary slot ID format", "Failed to extract slot details from ID"}

\* C8: decoding the reference that encodes a venue, a sport, an ISO date
\* and a time yields the same four values.
C8_DecodeInvertsEncode ==
    \A p \in Pages : \A v \in VenueIds, s \in SportIds, d \in IsoDates,
                        t \in ClockTimes :
        (/\ version[p] = 1
         /\ slotId[p] = EncodeTempId(v, s, d, t)
         /\ fpc[p] = "venue")
        => /\ floc[p].venueId = v
           /\ floc[p].sportId = s
           /\ floc[p].date = d
           /\ floc[p].time = t

\* C9: a reference with the virtual prefix whose segment count is not that
\* of the expected shape is refused as malformed: no venue, sport or
\* bookings lookup is issued for it and no slot is built.
C9_WrongSegmentCountIsMalformed ==
    \A p \in Pages :
        (/\ version[p] = 1
         /\ user[p] # NullText
         /\ IsTemp(slotId[p])
         /\ ~HasExpectedShape(slotId[p]))
        => /\ fpc[p] \in {"effect", "done"}
           /\ slot[p] = NoRow
           /\ fpc[p] = "done" => error[p] \in MalformedMessages

\* C10: a resolution that has ended has set the slot or the error and has
\* finished loading; for a reference with the virtual prefix and another
\* segment count than expected the error is the malformed-reference one.
C10_ResolveEndsWithSlotOrError ==
    \A p \in Pages :
        (user[p] # NullText /\ slotId[p] # NullText /\ fpc[p] = "done")
        => /\ ~isLoading[p]
           /\ slot[p] # NoRow \/ error[p] # Null
           /\ (/\ version[p] = 1
               /\ IsTemp(slotId[p])
               /\ ~HasExpectedShape(slotId[p]))
              => error[p] \in MalformedMessages

\* The page resolves its reference as a row of slots.
PersistedVisit(p) ==
    /\ user[p] # NullText
    /\ slotId[p] # NullText
    /\ version[p] = 2 \/ ~IsTemp(slotId[p])

\* C13: a persisted reference with no row ends in the error state, one
\* whose flag is false ends with the page sent back to the slots; either
\* way no slot is set, the form is not shown and no submit can start.
C13_AbsentOrTakenSlotOffersNoForm ==
    \A p \in Pages :
        (PersistedVisit(p) /\ fpc[p] = "done")
        => /\ slotId[p] \notin SlotRows
                => /\ error[p] # Null
                   /\ slot[p] = NoRow
                   /\ ~FormRendered(p)
                   /\ ~ENABLED Submit(p)
           /\ (slotId[p] \in SlotRows /\ ~available[slotId[p]])
                => /\ error[p] # Null \/ route[p] = "/slots"
                   /\ error[p] = Null => (version[p] = 1 => isSlotBooked[p])
                   /\ slot[p] = NoRow
                   /\ ~FormRendered(p)
                   /\ ~ENABLED Submit(p)

\* C13, its case: a page found the flag of its slot false and left for the
\* slots.
C13_Witness ==
    \E p \in Pages :
        /\ PersistedVisit(p)
        /\ fpc[p] = "done"
        /\ slotId[p] \in SlotRows
        /\ ~available[slotId[p]]
        /\ error[p] = Null
        /\ route[p] = "/slots"

\* The page resolves a virtual reference whose venue or sport has no row.
MissingVenueOrSport(p) ==
    /\ version[p] = 1
    /\ user[p] # NullText
    /\ IsTemp(slotId[p])
    /\ DecodeTempId(slotId[p]).ok
    /\ \/ DecodeTempId(slotId[p]).venueId \notin VenueRows
       \/ DecodeTempId(slotId[p]).sportId \notin SportRows

\* C14: for a virtual reference whose venue or sport is missing no slot is
\* built or set, and the resolution ends in the error state.
C14_MissingVenueOrSportSetsNoSlot ==
    \A p \in Pages :
        MissingVenueOrSport(p)
        => /\ slot[p] = NoRow
           /\ floc[p].tempSlot = NoRow
           /\ fpc[p] # "pricing"
           /\ fpc[p] = "done" => error[p] # Null

\* C14, its case: the sport lookup of a reference with an existing venue
\* returned no row.
C14_Witness ==
    \E p \in Pages :
        /\ MissingVenueOrSport(p)
        /\ DecodeTempId(slotId[p]).venueId \in VenueRows
        /\ fpc[p] = "done"
        /\ error[p] = "no rows returned"


\* C28: the available field of a virtual slot is false exactly when the
\* bookings of its venue, sport and slot time, which the load-time check
\* asked for, are not none.
C28_VirtualAvailableFollowsCheck ==
    \A p \in Pages :
        (slot[p] # NoRow /\ IsTemp(slot[p].id))
        => (slot[p].available
              <=> BookingsAt(slot[p].venue_id, slot[p].sport_id,
                             StoreTimestamp(slot[p].date, slot[p].start_time)) = {})

(***************************************************************************)
(* Tariff resolution alone: the price resolution applied to any tariff, and *)
(* one page resolving a virtual reference against that tariff.             *)
(***************************************************************************)
\* A row of venue_pricing, or none when the venue has no rule for the group.
OptionalRule(group, session, choice) ==
    IF choice = 0 THEN << >>
    ELSE <<[day_group |-> group, is_morning |-> session, price |-> choice]>>

\* The tariffs: every choice of the four rules of one session (absent, at
\* the default price, or at another price), listed least specific first,
\* after two rules of the other session.
RuleSets ==
    {   <<[day_group |-> "Monday", is_morning |-> ~m, price |-> 300],
          [day_group |-> "monday-sunday", is_morning |-> ~m, price |-> 300]>>
     \o OptionalRule("monday-sunday", m, c[1])
     \o OptionalRule("monday-thursday", m, c[2])
     \o OptionalRule("friday-sunday", m, c[3])
     \o OptionalRule("Monday", m, c[4]) :
        c \in [1..4 -> {0, DefaultPrice, 800}], m \in BOOLEAN}

\* A date as the decoder cuts it out of an encoded reference.
DateTail == <<"1", "5">>

\* The dates the price resolution is applied to.
QuoteDates == {DateMon, DateSat, DateMonBasic, DateTail}

\* The virtual references whose date reaches the price resolution.
PricedRefs ==
    {TempIdBasic, EncodeTempId(VenueA, SportA, DateMonBasic, TimeEvening)}

InitPrice ==
    /\ StoreInit
    /\ rules \in RuleSets
    /\ \E d \in QuoteDates, t \in {TimeMorning, TimeEvening} :
          quote = [NoQuote EXCEPT !.date = d, !.time = t]
    /\ tz \in TzOffsets
    /\ PageInit({[p \in Pages |->
                    IF p = 1 THEN [version |-> 1, slotId |-> id, user |-> TRUE]
                    ELSE NoSessionVisit] : id \in PricedRefs})

\* The price resolution of fetchSlotDetails applied to the date and time.
Quote ==
    /\ ~quote.done
    /\ quote' = [quote EXCEPT !.done = TRUE,
                              !.price = ResolvePrice(rules, quote.date, quote.time, tz)]
    /\ UNCHANGED <<tz, version, slotId, user, rules, published, inbox, stale, auth>>
    /\ UNCHANGED <<storeVars, formVars, viewVars, fetchVars, submitVars>>

\* The steps of fetchSlotDetails on a virtual reference.
FetchVirtual(p) ==
    \/ RunEffect(p)
    \/ FetchVenue(p)
    \/ FetchSport(p)
    \/ FetchBookings(p)
    \/ FetchPricing(p)
    \/ ErrorRedirect(p)

NextPrice == Quote \/ \E p \in Pages : FetchVirtual(p)

SpecPrice == InitPrice /\ [][NextPrice]_vars

(***************************************************************************)
(* Properties of the tariff resolution.                                    *)
(***************************************************************************)
\* The price of the first rule of rs for the day group g.
RulePrice(rs, g) ==
    rs[CHOOSE i \in 1..Len(rs) :
          /\ ToLowerCase(rs[i].day_group) = g
          /\ \A j \in 1..(i - 1) : ToLowerCase(rs[j].day_group) # g].price

\* The price by the order of precedence: exact weekday, then the group of
\* the weekday, then the rule for all days, then the default.
PriceByPrecedence(rs, date, time) ==
    LET morning == NumVal(SubSeq(time, 1, 2)) < 12
        session == SelectSeq(rs, LAMBDA r : r.is_morning = morning)
        weekday == DayNames[WeekdayOf(IsoDateDays(date)) + 1]
        group   == IF weekday \in {"friday", "saturday", "sunday"}
                   THEN "friday-sunday" ELSE "monday-thursday"
        Has(g)  == \E i \in 1..Len(session) : ToLowerCase(session[i].day_group) = g
    IN IF Has(weekday) THEN RulePrice(session, weekday)
       ELSE IF Has(group) THEN RulePrice(session, group)
       ELSE IF Has("monday-sunday") THEN RulePrice(session, "monday-sunday")
       ELSE DefaultPrice

\* C11: for every tariff, date and start time the resolved price is the one
\* the order of precedence gives among the rules of the matching session.
C11_PriceFollowsPrecedence ==
    (quote.done /\ IsIsoDate(quote.date))
        => quote.price = PriceByPrecedence(rules, quote.date, quote.time)

\* C12: on a date that does not parse the price resolution yields the
\* default price, and a resolution that met no failing round trip ends with
\* the slot set at that price.
C12_UnparsableDateGivesDefault ==
    /\ (quote.done /\ ~IsIsoDate(quote.date)) => quote.price = DefaultPrice
    /\ \A p \in Pages :
          (/\ version[p] = 1
           /\ user[p] # NullText
           /\ IsTemp(slotId[p])
           /\ fpc[p] = "done"
           /\ error[p] = Null
           /\ ~IsIsoDate(DecodeTempId(slotId[p]).date))
          => /\ slot[p] # NoRow
             /\ slot[p].price = DefaultPrice

\* C12, its case: a page has resolved a reference whose date does not parse
\* against a tariff with a rule for every day of the slot's session.
C12_Witness ==
    \E p \in Pages :
        /\ fpc[p] = "done"
        /\ slot[p] # NoRow
        /\ ~IsIsoDate(slot[p].date)
        /\ \E i \in 1..Len(rules) :
              /\ rules[i].day_group = "monday-sunday"
              /\ rules[i].is_morning = IsMorning(slot[p].start_time)
              /\ rules[i].price # DefaultPrice
        /\ quote.done /\ ~IsIsoDate(quote.date)

(***************************************************************************)
(* The end time alone: one page resolving a virtual reference of any start *)
(* time.                                                                   *)
(***************************************************************************)
StartTimes ==
    { <<"0", "0", ":", "0", "0", ":", "0", "0">>,
      TimeMorning,
      <<"0", "9", ":", "4", "5", ":", "3", "0">>,
      <<"1", "1", ":", "3", "0", ":", "0", "0">>,
      TimeEvening,
      <<"2", "3", ":", "2", "9", ":", "5", "9">>,
      <<"2", "3", ":", "3", "0", ":", "0", "0">>,
      <<"2", "3", ":", "5", "9", ":", "5", "9">> }

InitEndTime ==
    /\ StoreInit
    /\ TariffInit
    /\ tz \in TzOffsets
    /\ PageInit({[p \in Pages |->
                    IF p = 1
                    THEN [version |-> 1,
                          slotId |-> EncodeTempId(VenueA, SportA, DateMonBasic, t),
                          user |-> TRUE]
                    ELSE NoSessionVisit] : t \in StartTimes})

NextEndTime == \E p \in Pages : FetchVirtual(p)

SpecEndTime == InitEndTime /\ [][NextEndTime]_vars

BrowserZones == TzOffsets \cup {-300}

InitZones ==
    /\ StoreInit
    /\ rules = TariffOfVenueA
    /\ \E d \in QuoteDates, t \in {TimeMorning, TimeEvening} :
          quote = [NoQuote EXCEPT !.date = d, !.time = t]
    /\ tz \in BrowserZones
    /\ PageInit({[p \in Pages |->
                    IF p = 1 THEN [version |-> 1, slotId |-> id, user |-> TRUE]
                    ELSE NoSessionVisit] : id \in PricedRefs})

SpecZones == InitZones /\ [][NextPrice]_vars

\* C25: a resolved price is the price of its rule set, date and start time
\* alone: the resolution of the same three in any other browser gives it
\* too, for the price looked at on its own and for the price of the slot of
\* a page, whatever else the state holds.
C25_PriceDependsOnRulesDateTimeOnly ==
    \A z \in BrowserZones :
        /\ quote.done
              => quote.price = ResolvePrice(rules, quote.date, quote.time, z)
        /\ \A p \in Pages :
              (fpc[p] = "done" /\ slot[p] # NoRow /\ IsTemp(slot[p].id))
              => slot[p].price = ResolvePrice(PricingRows(slot[p].venue_id),
                                              slot[p].date, slot[p].start_time, z)

(***************************************************************************)
(* One page with a session booking against a fresh store; the other pages  *)
(* have no session.                                                        *)
(***************************************************************************)
InitSolo ==
    /\ StoreInit
    /\ TariffInit
    /\ tz \in TzOffsets
    /\ PageInit({[p \in Pages |-> IF p = 1 THEN v ELSE NoSessionVisit] :
                    v \in Visits})

SpecSolo == InitSolo /\ [][Next]_vars

C34_StorageOnlyWithUserAndSlot ==
    /\ \A p \in Pages :
          /\ spc[p] # "idle"
                => /\ user[p] # NullText /\ sub[p].user = user[p]
                   /\ sub[p].slot # NoRow /\ sub[p].venue # NoRow
                   /\ sub[p].sport # NoRow
                   /\ sub[p].slot = slot[p] /\ sub[p].venue = venue[p]
                   /\ sub[p].sport = sport[p]
          /\ (user[p] = NullText \/ slot[p] = NoRow \/ venue[p] = NoRow
                \/ sport[p] = NoRow)
                => trail[p] = << >> /\ BookingsOf(bookings, p) = {}
    /\ \A b \in bookings : b.user_id = user[b.id] /\ b.user_id # NullText

\* C34, its case: a booking of the user of page 1, next to a page without
\* a session that has been sent to /auth.
C34_Witness ==
    \E b \in bookings, q \in Pages :
        /\ b.user_id = UserOf(b.id)
        /\ user[q] = NullText
        /\ route[q] = "/auth"

(***************************************************************************)
(* The commit protocol with every storage call answered: a handleSubmit    *)
(* that waits for the store is eventually resumed.                         *)
(***************************************************************************)
\* Two pages with a session race for their slots; any further page has no
\* session.
InitAnswered ==
    /\ StoreInit
    /\ TariffInit
    /\ tz \in TzOffsets
    /\ PageInit({[p \in Pages |-> IF p = 1 THEN v
                                  ELSE IF p = 2 THEN w ELSE NoSessionVisit] :
                    v \in Visits, w \in Visits})

SpecAnswered ==
    /\ InitAnswered
    /\ [][Next]_vars
    /\ \A p \in Pages : WF_vars(SubmitCheck(p) \/ SubmitInsert(p) \/ SubmitFlip(p))

\* The operations of page p issued so far are extended by at most one, or
\* left as they are.
TrailGrows(p) ==
    \/ trail'[p] = trail[p]
    \/ /\ Len(trail'[p]) = Len(trail[p]) + 1
       /\ SubSeq(trail'[p], 1, Len(trail[p])) = trail[p]

\* C33: isSubmitting is true exactly while a handleSubmit of the page waits
\* for the store; while it is true no new attempt starts on the page (the
\* operations issued only continue the running attempt, one at a time); and
\* every handleSubmit that waits for the store ends, on each of its paths,
\* with isSubmitting false.
C33_SubmitEndsAndResetsIsSubmitting ==
    /\ [](\A p \in Pages : isSubmitting[p] <=> spc[p] # "idle")
    /\ [][\A p \in Pages :
             isSubmitting[p] => /\ TrailGrows(p)
                                /\ sub'[p] # NoRow => sub'[p].name = sub[p].name
                                /\ ~ButtonEnabled(p)]_vars
    /\ \A p \in Pages :
          (spc[p] # "idle") ~> (spc[p] = "idle" /\ ~isSubmitting[p])

\* C33, its case: one page ended on a conflict and another on a success,
\* both with isSubmitting reset.
C33_Witness ==
    \E p, q \in Pages :
        /\ outcome[p] = "Conflict" /\ ~isSubmitting[p] /\ spc[p] = "idle"
        /\ outcome[q] = "Confirmed" /\ ~isSubmitting[q] /\ spc[q] = "idle"

(***************************************************************************)
(* One page with a session whose slotId changes while it resolves the      *)
(* reference before.                                                       *)
(***************************************************************************)
NextOverlap ==
    \/ Next
    \/ \E p \in Pages :
          \/ ChangeSlotInFlight(p)
          \/ StaleSlotRow(p)
          \/ StaleSlotVenue(p)
          \/ StaleSlotSport(p)

SpecOverlap == InitSolo /\ [][NextOverlap]_vars

\* C31: every booking that is inserted has the venue_id and the sport_id of
\* the slot of the handleSubmit that inserts it, which is the slot whose
\* slot_id (or date and time) the booking records.
C31_BookingHasVenueAndSportOfItsSlot ==
    [][\A b \in bookings' \ bookings :
          /\ b.venue_id = sub[b.id].slot.venue_id
          /\ b.sport_id = sub[b.id].slot.sport_id
          /\ b.slot_id # NullText => /\ b.slot_id \in SlotRows
                                     /\ b.venue_id = SlotRow(b.slot_id).venue_id
                                     /\ b.sport_id = SlotRow(b.slot_id).sport_id]_vars

(***************************************************************************)
(* The AuthProvider: the auth client's session, the listener registered    *)
(* with onAuthStateChange, initializeAuth, fetchProfile and signOut.       *)
(***************************************************************************)
\* How many sign-ins, token refreshes and clicks on sign-out are followed.
MaxAuthEvents == 3

UserAdmin == "admin-1"

UserMember == "member-1"

AuthUsers == {UserAdmin, UserMember}

\* The row of profiles of a user.
ProfileOf(u) == [id |-> u, role |-> IF u = UserAdmin THEN "admin" ELSE "user"]

\* isAdmin of the context value.
IsAdmin == auth.profile # NoRow /\ auth.profile.role = "admin"

\* What the booking pages hold, which the AuthProvider leaves alone.
bookingVars ==
    <<storeVars, formVars, viewVars, fetchVars, submitVars, tz, version, slotId,
      user, rules, quote, published, inbox, stale>>

\* The mount of the provider: the useState values, the listener registered
\* and initializeAuth suspended at getSession().  The browser holds a
\* session or none; the client may announce it to the listener
\* (INITIAL_SESSION).
AuthInit ==
    \E s \in AuthUsers \cup {Null} :
       \E ev \in {<< >>, <<s>>} :
          auth = [session |-> s, user |-> Null, profile |-> NoRow, isLoading |-> TRUE,
                  events |-> ev, timers |-> {}, calls |-> {},
                  init |-> "getSession", path |-> "none", emitted |-> 0]

\* A fetchProfile that waits for the store: for which user, whether it
\* waits for the select or for the signOut of the permission error, and
\* whether initializeAuth awaits it.
ProfileCall(u, awaited) == [fn |-> "fetchProfile", userId |-> u, pc |-> "select",
                            awaited |-> awaited]

\* A signOut started from the page.
SignOutCall == [fn |-> "signOut", userId |-> Null, pc |-> "signOut", awaited |-> FALSE]

\* initializeAuth is over when the fetchProfile it awaits is.
InitAfter(c, path) ==
    IF c.awaited THEN [init |-> "done", path |-> path]
    ELSE [init |-> auth.init, path |-> auth.path]

\* The answer of getSession(): setUser, then fetchProfile or
\* setIsLoading(false); the catch when it throws.
InitializeAuth ==
    /\ auth.init = "getSession"
    /\ UNCHANGED bookingVars
    /\ \E io \in IoResults :
          auth' = IF io = "fail"
                  THEN [auth EXCEPT !.isLoading = FALSE, !.init = "done",
                                    !.path = "thrown"]
                  ELSE IF auth.session = Null
                  THEN [auth EXCEPT !.user = Null, !.isLoading = FALSE,
                                    !.init = "done", !.path = "noSession"]
                  ELSE [auth EXCEPT !.user = auth.session, !.init = "fetchProfile",
                                    !.calls = @ \cup {ProfileCall(auth.session, TRUE)}]

\* The listener is called with the next auth event: setUser; with a user
\* the fetchProfile is deferred with setTimeout, without one the profile is
\* cleared.
OnAuthStateChange ==
    /\ auth.events # << >>
    /\ UNCHANGED bookingVars
    /\ LET currentUser == Head(auth.events) IN
       auth' = IF currentUser # Null
               THEN [auth EXCEPT !.events = Tail(@), !.user = currentUser,
                                 !.timers = @ \cup {currentUser}]
               ELSE [auth EXCEPT !.events = Tail(@), !.user = Null,
                                 !.profile = NoRow, !.isLoading = FALSE]

\* The setTimeout(() => fetchProfile(currentUser.id), 0) fires.
ProfileTimer ==
    /\ UNCHANGED bookingVars
    /\ \E u \in auth.timers :
          auth' = [auth EXCEPT !.timers = @ \ {u},
                               !.calls = @ \cup {ProfileCall(u, FALSE)}]

\* The answer of from('profiles').select('*').eq('id', userId).single():
\* setProfile(data); an error is logged; a permission error goes on to
\* signOut(); the finally sets isLoading to false.
FetchProfile ==
    /\ UNCHANGED bookingVars
    /\ \E c \in auth.calls :
          /\ c.fn = "fetchProfile" /\ c.pc = "select"
          /\ \E answer \in {"row", "error", "denied", "throw"} :
                LET after == InitAfter(c, IF answer = "row" THEN "profile"
                                          ELSE "profileError")
                IN auth' =
                     IF answer = "denied"
                     THEN [auth EXCEPT !.calls = (@ \ {c}) \cup {[c EXCEPT !.pc = "signOut"]}]
                     ELSE IF answer = "row"
                     THEN [auth EXCEPT !.calls = @ \ {c}, !.profile = ProfileOf(c.userId),
                                       !.isLoading = FALSE,
                                       !.init = after.init, !.path = after.path]
                     ELSE [auth EXCEPT !.calls = @ \ {c}, !.isLoading = FALSE,
                                       !.init = after.init, !.path = after.path]

\* signOut after supabase.auth.signOut() has answered: the client drops the
\* session and announces it, then setUser(null), setProfile(null) and the
\* navigation; when the call throws the catch logs it.
SignedOut(a, io) ==
    IF io = "fail" THEN a
    ELSE [a EXCEPT !.session = Null, !.events = Append(@, Null), !.user = Null,
                   !.profile = NoRow]

\* FetchProfileSignOut returning past the finally.
FetchProfileSignOutSkipsFinally ==
    /\ UNCHANGED bookingVars
    /\ \E c \in auth.calls :
          /\ c.fn = "fetchProfile" /\ c.pc = "signOut"
          /\ \E io \in IoResults :
                LET after == InitAfter(c, "denied")
                IN auth' = [SignedOut(auth, io) EXCEPT
                               !.calls = @ \ {c},
                               !.init = after.init, !.path = after.path]

\* fetchProfile after the signOut() of a permission error has returned: the
\* return, through the finally.
FetchProfileSignOut ==
    /\ UNCHANGED bookingVars
    /\ \E c \in auth.calls :
          /\ c.fn = "fetchProfile" /\ c.pc = "signOut"
          /\ \E io \in IoResults :
                LET after == InitAfter(c, "denied")
                IN auth' = [SignedOut(auth, io) EXCEPT
                               !.calls = @ \ {c}, !.isLoading = FALSE,
                               !.init = after.init, !.path = after.path]

\* The user signs in on the auth page, once the client has answered
\* getSession(): the client stores the session and announces it (SIGNED_IN).
SignIn ==
    /\ auth.session = Null
    /\ auth.init # "getSession"
    /\ auth.emitted < MaxAuthEvents
    /\ UNCHANGED bookingVars
    /\ \E u \in AuthUsers :
          auth' = [auth EXCEPT !.session = u, !.events = Append(@, u),
                               !.emitted = @ + 1]

\* The client renews the token of the session and announces it
\* (TOKEN_REFRESHED).
TokenRefreshed ==
    /\ auth.session # Null
    /\ auth.emitted < MaxAuthEvents
    /\ UNCHANGED bookingVars
    /\ auth' = [auth EXCEPT !.events = Append(@, auth.session), !.emitted = @ + 1]

\* The user clicks on sign out: signOut() is suspended at
\* supabase.auth.signOut().
SignOut ==
    /\ auth.user # Null
    /\ SignOutCall \notin auth.calls
    /\ auth.emitted < MaxAuthEvents
    /\ UNCHANGED bookingVars
    /\ auth' = [auth EXCEPT !.calls = @ \cup {SignOutCall}, !.emitted = @ + 1]

\* The signOut() started from the page goes on after its await.
SignOutAnswered ==
    /\ SignOutCall \in auth.calls
    /\ UNCHANGED bookingVars
    /\ \E io \in IoResults :
          auth' = [SignedOut(auth, io) EXCEPT !.calls = @ \ {SignOutCall}]

InitAuth ==
    /\ StoreInit
    /\ TariffInit
    /\ tz = 0
    /\ \E v \in {[p \in Pages |-> NoSessionVisit]} :
          /\ version = [p \in Pages |-> v[p].version]
          /\ slotId = [p \in Pages |-> v[p].slotId]
          /\ user = [p \in Pages |-> NullText]
    /\ slot = [p \in Pages |-> NoRow]
    /\ venue = [p \in Pages |-> NoRow]
    /\ sport = [p \in Pages |-> NoRow]
    /\ name = [p \in Pages |-> EmptyText]
    /\ phone = [p \in Pages |-> EmptyText]
    /\ isSubmitting = [p \in Pages |-> FALSE]
    /\ isLoading = [p \in Pages |-> TRUE]
    /\ error = [p \in Pages |-> Null]
    /\ isSlotBooked = [p \in Pages |-> FALSE]
    /\ route = [p \in Pages |-> "/booking"]
    /\ timer = [p \in Pages |-> FALSE]
    /\ subscribed = [p \in Pages |-> FALSE]
    /\ fpc = [p \in Pages |-> "effect"]
    /\ floc = [p \in Pages |-> NoLocals]
    /\ spc = [p \in Pages |-> "idle"]
    /\ sub = [p \in Pages |-> NoRow]
    /\ outcome = [p \in Pages |-> "None"]
    /\ trail = [p \in Pages |-> << >>]
    /\ raced = [p \in Pages |-> FALSE]
    /\ published = {}
    /\ inbox = [p \in Pages |-> {}]
    /\ stale = [p \in Pages |-> NoRow]
    /\ AuthInit

NextAuth ==
    \/ InitializeAuth
    \/ OnAuthStateChange
    \/ ProfileTimer
    \/ FetchProfile
    \/ FetchProfileSignOut
    \/ SignIn
    \/ TokenRefreshed
    \/ SignOut
    \/ SignOutAnswered

SpecAuth == InitAuth /\ [][NextAuth]_vars

\* Every call of the provider to the auth client and to the store returns
\* or throws.
SpecAuthAnswered ==
    /\ SpecAuth
    /\ WF_vars(InitializeAuth)
    /\ WF_vars(FetchProfile)
    /\ WF_vars(FetchProfileSignOut)
    /\ WF_vars(SignOutAnswered)

\* C35: a profile is held only with a user of the same id, and isAdmin is
\* true only with a signed-in user who is an administrator.
C35_ProfileBelongsToUser ==
    /\ auth.profile # NoRow => auth.user # Null /\ auth.profile.id = auth.user
    /\ IsAdmin => auth.user # Null /\ ProfileOf(auth.user).role = "admin"

\* C36: after the mount isLoading becomes false.
C36_IsLoadingBecomesFalse == <>(~auth.isLoading)

\* C36, its case: initializeAuth went through the permission error of
\* fetchProfile and its signOut, and isLoading is false.
C36_Witness == auth.path = "denied" /\ ~auth.isLoading

=============================================================================
